---------------------------- MODULE Spec2Model ----------------------------
(***************************************************************************)
(* A model of the Railgun MCP server (railgun_mcp/models.py and            *)
(* railgun_mcp/server.py): the configuration loader Config, the HTTP       *)
(* client wrapper RailgunAPIClient, the lazily created global client and   *)
(* the tool handlers, run as tasks of one cooperative event loop.          *)
(*                                                                         *)
(* Python values are modelled as follows.  None is the string None below;  *)
(* text whose characters matter (RPC URLs, which check_config splits on    *)
(* "/", and amounts, which distribute_tokens parses with int() and prints  *)
(* with str()) is a sequence of one-character strings; all other text is   *)
(* an opaque TLA+ string.                                                  *)
(***************************************************************************)
EXTENDS Integers, Sequences, FiniteSets, TLC

VARIABLES
    env,        \* os.environ: variable name -> value, None (NoUrl) when unset
    file,       \* ~/.railgun/config.json as the loader will find it
    config,     \* the module-level config = Config() of server.py
    cfgpc,      \* "start" before Config() has run, "loaded" after it, "raised"
                \* if an exception left it, "exited" once main() has ended
    api_client, \* the global api_client: None or the index of a client
    clients,    \* every RailgunAPIClient constructed, in order of creation
    sessions,   \* every aiohttp.ClientSession constructed, in order
    running,    \* the task the event loop is executing, or None when idle
    task,       \* per task: the handler invocation it carries
    sent,       \* per task: the requests its invocation has sent, in order
    last        \* outcome of the last direct call of a client method

vars == <<env, file, config, cfgpc, api_client, clients, sessions, running,
          task, sent, last>>

None == "<None>"

\* (Mutant: only None is falsy.)
Truthy_NotNone(v) == v # None

\* Python truthiness of an optional string: None and "" are falsy.
Truthy(v) == v # None /\ v # ""

\* Python's `a or b`.
Or(a, b) == IF Truthy(a) THEN a ELSE b

RECURSIVE SeqSum(_)
SeqSum(s) == IF s = <<>> THEN 0 ELSE Head(s) + SeqSum(Tail(s))

Range(s) == {s[i] : i \in DOMAIN s}

-----------------------------------------------------------------------------
(***************************************************************************)
(* Config (models.py)                                                      *)
(***************************************************************************)

Networks == {"ethereum", "arbitrum", "polygon", "bsc"}

RpcEnvVar ==
    [ethereum |-> "ETHEREUM_RPC_URL", arbitrum |-> "ARBITRUM_RPC_URL",
     polygon |-> "POLYGON_RPC_URL", bsc |-> "BSC_RPC_URL"]

EnvVars ==
    {"RAILGUN_PRIVATE_KEY", "RAILGUN_WALLET_PASSWORD"} \cup
    {RpcEnvVar[n] : n \in Networks}

\* A URL is the sequence of its characters; a letter stands for one character
\* that is not "/".  The three Alchemy defaults read scheme://host/v2/key and
\* the BSC default reads scheme://host/ .
AlchemyUrl(n) == <<"s", ":", "/", "/", n, "/", "2", "/", "k">>
DefaultRpc ==
    [ethereum |-> AlchemyUrl("e"), arbitrum |-> AlchemyUrl("a"),
     polygon |-> AlchemyUrl("p"), bsc |-> <<"s", ":", "/", "/", "b", "/">>]

\* None where the values are URLs: no URL has it as a character.
NoUrl == <<None>>

\* os.getenv(name) and os.getenv(name, default); the latter reads the RPC
\* variables only.
getenv(e, name) == e[name]
getenv_default(e, name, default) == IF e[name] = NoUrl THEN default ELSE e[name]

DefaultContracts ==
    [ethereum |-> [proxy |-> "0xFA70", poseidon |-> "0x3e3a", verifier |-> "0x87C7"],
     polygon  |-> [proxy |-> "0x19b6", poseidon |-> "0x3e3a", verifier |-> "0x87C7"],
     bsc      |-> [proxy |-> "0x5901", poseidon |-> "0x3e3a", verifier |-> "0x87C7"]]

DefaultChainIds == [ethereum |-> 1, polygon |-> 137, bsc |-> 56, arbitrum |-> 42161]

\* dict.update(other) for two dicts: the keys of other replace or extend d.
DictUpdate(d, other) ==
    [k \in DOMAIN d \cup DOMAIN other |-> IF k \in DOMAIN other THEN other[k] ELSE d[k]]

\* The settings after lines 94-134: environment and built-in defaults only.
ConfigFromEnv(e) ==
    [private_key |-> getenv(e, "RAILGUN_PRIVATE_KEY"),
     wallet_password |-> getenv(e, "RAILGUN_WALLET_PASSWORD"),
     rpc_endpoints |-> [n \in Networks |-> getenv_default(e, RpcEnvVar[n], DefaultRpc[n])],
     railgun_contracts |-> DefaultContracts,
     chain_ids |-> DefaultChainIds]

\* (Mutant: the file's record replaces the built-in record of the network.)
RECURSIVE MergeContracts_WholeRecord(_, _)
MergeContracts_WholeRecord(contracts, entries) ==
    IF entries = <<>> THEN [contracts |-> contracts, exc |-> None]
    ELSE LET en == Head(entries)
         IN  IF en.network \in DOMAIN contracts
             THEN IF en.kind = "object"
                  THEN MergeContracts_WholeRecord(
                         [contracts EXCEPT ![en.network] = en.val], Tail(entries))
                  ELSE [contracts |-> contracts, exc |-> "TypeError"]
             ELSE MergeContracts_WholeRecord(
                    DictUpdate(contracts, [x \in {en.network} |-> en.val]),
                    Tail(entries))

\* Lines 151-158, over the entries of the file's "railgun_contracts" in file
\* order.  An entry is [network, kind, val]: kind "object" with val a dict, or
\* kind "other" (a JSON number), on which dict.update raises TypeError.  The
\* result is [contracts, exc]; what was merged before the exception stays.
RECURSIVE MergeContracts(_, _)
MergeContracts(contracts, entries) ==
    IF entries = <<>> THEN [contracts |-> contracts, exc |-> None]
    ELSE LET en == Head(entries)
         IN  IF en.network \in DOMAIN contracts
             THEN IF en.kind = "object"
                  THEN MergeContracts(
                         [contracts EXCEPT ![en.network] = DictUpdate(@, en.val)],
                         Tail(entries))
                  ELSE [contracts |-> contracts, exc |-> "TypeError"]
             ELSE MergeContracts(
                    DictUpdate(contracts, [x \in {en.network} |-> en.val]),
                    Tail(entries))

\* The statements of lines 142-158 for a file that parsed to a JSON object d:
\* [cfg, exc], cfg the settings when the block ends or raises exc.  Each
\* statement's effect stays when a later one raises.
MergeFile(c, d) ==
    LET c1 == [c EXCEPT !.private_key = Or(@, d.private_key)]
        c2 == [c1 EXCEPT !.wallet_password = Or(@, d.wallet_password)]
    IN  IF d.rpc_endpoints.kind = "other" THEN [cfg |-> c2, exc |-> "TypeError"]
        ELSE LET c3 == IF d.rpc_endpoints.kind = "missing" THEN c2
                       ELSE [c2 EXCEPT !.rpc_endpoints = DictUpdate(@, d.rpc_endpoints.val)]
             IN  CASE d.railgun_contracts.kind = "missing" -> [cfg |-> c3, exc |-> None]
                   [] d.railgun_contracts.kind = "other" ->
                        [cfg |-> c3, exc |-> "AttributeError"]
                   [] d.railgun_contracts.kind = "object" ->
                        LET m == MergeContracts(c3.railgun_contracts,
                                                d.railgun_contracts.val)
                        IN  [cfg |-> [c3 EXCEPT !.railgun_contracts = m.contracts],
                             exc |-> m.exc]

\* Lines 137-158 for config file f, which is absent (exists() is false),
\* unreadable (open raises), malformed (json.load raises), a JSON value that
\* is no object (its .get raises), or a JSON object: [cfg, exc].
LoadFile(c, f) ==
    CASE f.state = "absent" -> [cfg |-> c, exc |-> None]
      [] f.state = "unreadable" -> [cfg |-> c, exc |-> "PermissionError"]
      [] f.state = "malformed" -> [cfg |-> c, exc |-> "JSONDecodeError"]
      [] f.state = "nonobject" -> [cfg |-> c, exc |-> "AttributeError"]
      [] f.state = "object" -> MergeFile(c, f.data)

\* (Mutant: the handler of line 160 catches the JSON error only.)
Caught_JsonOnly(exc) == exc = "JSONDecodeError"

\* Line 160, `except Exception`: every exception the block raises is one.
Caught(exc) ==
    exc \in {"PermissionError", "JSONDecodeError", "AttributeError", "TypeError"}

\* config.<name>: the attributes are the five that __init__ assigns; any
\* other name raises AttributeError.
getattr(cfg, name) ==
    IF name \in DOMAIN cfg THEN [kind |-> "return", val |-> cfg[name]]
    ELSE [kind |-> "raise",
          exc |-> "AttributeError: 'Config' object has no attribute '" \o name \o "'"]

\* Config.__init__ for environment e and config file f: the settings, and
\* whether an exception leaves the constructor.
ConfigInit(e, f) ==
    LET r == LoadFile(ConfigFromEnv(e), f)
    IN  [cfg |-> r.cfg, raised |-> r.exc # None /\ ~Caught(r.exc)]

-----------------------------------------------------------------------------
(***************************************************************************)
(* RailgunAPIClient and the global client (server.py, lines 31-96)         *)
(***************************************************************************)

\* Client and session references are indices into clients and sessions;
\* 0 is Python's None.
NoRef == 0

\* str(e) of an exception: the message with, for "API request failed", the
\* status code and the raw body text that the f-string of lines 58 and 69
\* puts into it.
Err(msg, status, detail) == [msg |-> msg, status |-> status, detail |-> detail]

Return(v) == [kind |-> "return", val |-> v]
Raise(e)  == [kind |-> "raise", exc |-> e]

\* RailgunAPIClient.__init__
NewClient(api_key, api_url) ==
    [api_key |-> api_key, api_url |-> api_url, session |-> NoRef]

\* The world a client method acts on: [api_client, clients, sessions].
World == [api_client |-> api_client, clients |-> clients, sessions |-> sessions]

\* RailgunAPIClient.__aenter__ on client c: a new ClientSession carrying the
\* bearer header is constructed and stored in self.session.
aenter(w, c) ==
    [w EXCEPT
       !.sessions = Append(@, [closed |-> FALSE, bearer |-> w.clients[c].api_key,
                               owner |-> c]),
       !.clients[c].session = Len(w.sessions) + 1]

\* RailgunAPIClient.__aexit__ on client c: closes self.session if there is
\* one (ClientSession.close() on a closed session does nothing).
aexit(w, c) ==
    IF w.clients[c].session # NoRef
    THEN [w EXCEPT !.sessions[w.clients[c].session].closed = TRUE]
    ELSE w

\* The JSON documents the easy-mode handlers read fields of, by body text
\* (written without the quotes).  A JSON object is a function from its keys;
\* an object whose entries the handler iterates or looks up by a computed key
\* (the per-token balances) is the sequence of its [key, value] entries in the
\* order of the text; amounts are decimal texts, sequences of characters.
EmptyObject == [k \in {} |-> TRUE]
Item(key, value) == [key |-> key, value |-> value]

JsonDocs ==
    ("{balances:{}}" :> [balances |-> EmptyObject])
    @@ ("{balances:{private:{},public:{}}}" :>
          [balances |-> [private |-> <<>>, public |-> <<>>]])
    @@ ("{balances:{private:{USDC:500000,WBTC:0},public:{ETH:5,USDC:0,DAI:7}}}" :>
          [balances |->
              [private |-> <<Item("USDC", <<"5", "0", "0", "0", "0", "0">>),
                             Item("WBTC", <<"0">>)>>,
               public  |-> <<Item("ETH", <<"5">>), Item("USDC", <<"0">>),
                             Item("DAI", <<"7">>)>>]])
    @@ ("{balances:{private:{USDC:3000000,WBTC:9},public:{USDC:4}}}" :>
          [balances |->
              [private |-> <<Item("USDC", <<"3", "0", "0", "0", "0", "0", "0">>),
                             Item("WBTC", <<"9">>)>>,
               public  |-> <<Item("USDC", <<"4">>)>>]])
    @@ ("{balances:{private:{USDC:n/a},public:{}}}" :>
          [balances |->
              [private |-> <<Item("USDC", <<"n", "/", "a">>)>>, public |-> <<>>]])
    @@ ("{transactions:[]}" :> [transactions |-> <<>>])
    @@ ("{transactions:[{id:tx1,type:shield,age_minutes:45},{id:tx2,type:transfer,gas_price:1000000000}]}" :>
          [transactions |->
              <<[id |-> "tx1", type |-> "shield", age_minutes |-> 45],
                [id |-> "tx2", type |-> "transfer", gas_price |-> 1000000000]>>])
    @@ ("{transactions:[{id:tx2}]}" :> [transactions |-> <<[id |-> "tx2"]>>])
    @@ ("{gas_price:20}" :> [gas_price |-> <<"2", "0">>])
    @@ ("{tx_hash:0xabc}" :> [tx_hash |-> "0xabc"])

DocTexts == DOMAIN JsonDocs

\* The object a parsed body is: "{}" is the empty object.
Doc(json) == IF json \in DocTexts THEN JsonDocs[json] ELSE EmptyObject

\* d.get(key, default) and `for key, value in d.items()` on an object kept as
\* its entries.
DictGet(d, key, default) ==
    IF \E i \in DOMAIN d : d[i].key = key
    THEN d[CHOOSE i \in DOMAIN d : d[i].key = key].value
    ELSE default

\* response.json(): the body text parsed.  "{...}" stands for the JSON object
\* holding every field the handler reads, "{}" for the empty object, the
\* texts of JsonDocs for their documents, and the other texts are no JSON.
JsonTexts == {"{...}", "{}"}
BodyTexts == JsonTexts \cup {"<html>"}

response_json(text) ==
    IF text \in JsonTexts \cup DocTexts THEN Return(text)
    ELSE Raise(Err("ContentTypeError", 0, text))

\* What self.session.get / self.session.post does before any response: with
\* no session the attribute access on None raises, on a closed session aiohttp
\* raises RuntimeError.  Otherwise the request goes out.
SessionUsable(w, c) ==
    /\ w.clients[c].session # NoRef
    /\ ~w.sessions[w.clients[c].session].closed

SessionError(w, c) ==
    IF w.clients[c].session = NoRef
    THEN Err("AttributeError: 'NoneType' object has no attribute", 0, "")
    ELSE Err("RuntimeError: Session is closed", 0, "")

\* The statuses RailgunAPIClient.get and .post take for success.
GetOkStatuses == {200}
PostOkStatuses == {200, 201}

\* RailgunAPIClient.get, lines 54-58, once the response resp = [status, text]
\* is in, and .post, lines 65-69.
get(resp) ==
    IF resp.status \in GetOkStatuses THEN response_json(resp.text)
    ELSE Raise(Err("API request failed", resp.status, resp.text))

post(resp) ==
    IF resp.status \in PostOkStatuses THEN response_json(resp.text)
    ELSE Raise(Err("API request failed", resp.status, resp.text))

\* A connection that fails before any response: aiohttp raises inside
\* session.get / session.post and the client lets it through.
ConnError == Err("ClientConnectorError", 0, "")

ClientCall(method, resp) ==
    IF resp.status = 0 THEN Raise(ConnError)
    ELSE IF method = "GET" THEN get(resp) ELSE post(resp)

NotConfigured == Err("RAILGUN_PRIVATE_KEY not configured", 0, "")

\* The URL get_api_client hands to every client it builds (line 86).
FakeApiUrl == "fake-api-url"

\* (Mutant: the test of the global is lost, every call builds a client.)
ClientMissing_Always(w) == TRUE

\* get_api_client, line 79: `if not api_client`.
ClientMissing(w) == w.api_client = NoRef

\* get_api_client, lines 85-87: construct the client, enter it, store it in
\* the global.
CreateApiClient(w, cfg) ==
    LET c  == Len(w.clients) + 1
        w1 == [w EXCEPT !.clients = Append(@, NewClient(cfg.private_key, FakeApiUrl))]
        w2 == aenter(w1, c)
    IN  [w2 EXCEPT !.api_client = c]

\* (Mutant: only an unset key counts as missing, an empty one passes.)
KeyMissing_NoneOnly(cfg) == cfg.private_key = None

\* get_api_client, line 80: `if not config.private_key`.
KeyMissing(cfg) == ~Truthy(cfg.private_key)

\* get_api_client run from its first line to its return or raise:
\* [w, out], out the returned client or the exception.
get_api_client(w, cfg) ==
    IF ClientMissing(w)
    THEN IF KeyMissing(cfg)
         THEN [w |-> w, out |-> Raise(NotConfigured)]
         ELSE LET w2 == CreateApiClient(w, cfg)
              IN  [w |-> w2, out |-> Return(w2.api_client)]
    ELSE [w |-> w, out |-> Return(w.api_client)]

\* cleanup_api_client, lines 91-96.
cleanup_api_client(w) ==
    IF w.api_client # NoRef
    THEN [aexit(w, w.api_client) EXCEPT !.api_client = NoRef]
    ELSE w

-----------------------------------------------------------------------------
(***************************************************************************)
(* Text helpers: str.split, int() and str()                                *)
(***************************************************************************)

\* s.split(sep) for a one-character separator: the list of the pieces.
RECURSIVE SplitAcc(_, _, _, _)
SplitAcc(s, sep, cur, acc) ==
    IF s = <<>> THEN Append(acc, cur)
    ELSE IF Head(s) = sep THEN SplitAcc(Tail(s), sep, <<>>, Append(acc, cur))
    ELSE SplitAcc(Tail(s), sep, Append(cur, Head(s)), acc)

split(s, sep) == SplitAcc(s, sep, <<>>, <<>>)

\* `sep in s`
Contains(s, ch) == \E i \in DOMAIN s : s[i] = ch

Digits == <<"0", "1", "2", "3", "4", "5", "6", "7", "8", "9">>
IsDigit(ch) == \E d \in DOMAIN Digits : Digits[d] = ch
DigitVal(ch) == (CHOOSE d \in DOMAIN Digits : Digits[d] = ch) - 1

RECURSIVE DigitsVal(_, _)
DigitsVal(s, acc) ==
    IF s = <<>> THEN acc ELSE DigitsVal(Tail(s), 10 * acc + DigitVal(Head(s)))

\* int(s) for a str: an optional sign and then one or more decimal digits;
\* anything else raises ValueError.
IntParses(s) ==
    LET body == IF s # <<>> /\ Head(s) \in {"-", "+"} THEN Tail(s) ELSE s
    IN  body # <<>> /\ \A i \in DOMAIN body : IsDigit(body[i])

int(s) ==
    IF s # <<>> /\ Head(s) = "-" THEN 0 - DigitsVal(Tail(s), 0)
    ELSE IF s # <<>> /\ Head(s) = "+" THEN DigitsVal(Tail(s), 0)
    ELSE DigitsVal(s, 0)

RECURSIVE NatStr(_)
NatStr(n) ==
    IF n < 10 THEN <<Digits[n + 1]>>
    ELSE Append(NatStr(n \div 10), Digits[(n % 10) + 1])

\* str(n) for an int.
str(n) == IF n < 0 THEN <<"-">> \o NatStr(0 - n) ELSE NatStr(n)

\* (Mutant: the quotient is truncated towards zero.)
FloorDiv_Truncate(a, b) == IF a >= 0 THEN a \div b ELSE 0 - ((0 - a) \div b)

\* Python's a // b for b > 0: the floor of the quotient.
FloorDiv(a, b) == a \div b

-----------------------------------------------------------------------------
(***************************************************************************)
(* Tool handlers (server.py, lines 102-1401)                               *)
(*                                                                         *)
(* A handler is a coroutine.  It is modelled by three operators: what it   *)
(* does before `await get_api_client()`, what it does from there to its    *)
(* first request, and what it does when the awaited request has returned   *)
(* or raised.  Each yields a step: the next request to await, the result   *)
(* the handler returns, or the exception that leaves it.                   *)
(***************************************************************************)

Send(method, endpoint, data, loc) ==
    [op |-> "send", method |-> method, endpoint |-> endpoint, data |-> data,
     loc |-> loc]
Finish(result) == [op |-> "finish", result |-> result]
Escape(exc) == [op |-> "raise", exc |-> exc]
Continue == [op |-> "continue"]

\* `except Exception as e: return {"success": False, "error": str(e)}`
\* str(e): the message of the exception.  The client's own exception prints
\* the status and the body into it (lines 58 and 69); a KeyError prints the
\* repr of the missing key.
ExcStr(e) ==
    CASE e.msg = "API request failed" ->
            e.msg \o ": " \o ToString(e.status) \o " - " \o e.detail
      [] e.msg = "KeyError" -> "'" \o e.detail \o "'"
      [] OTHER -> IF e.detail = "" THEN e.msg ELSE e.detail

\* (Mutant: the failure result also names the kind of the error.)
Failure_WithKind(e) == [success |-> FALSE, error |-> ExcStr(e), kind |-> e.msg]

Failure(e) == [success |-> FALSE, error |-> ExcStr(e)]

\* response[key] for the keys a handler reads: the full body has them all,
\* the empty object none.
HasKeys(json) == json = "{...}"
KeyError(key) == Err("KeyError", 0, key)

NoLoc == [none |-> TRUE]

\* lines 116-119 and 155-158
PasswordRequired ==
    Err("Wallet password required. Set RAILGUN_WALLET_PASSWORD or provide password parameter",
        0, "")

\* ---- create_wallet, lines 102-135
create_wallet_body(a, cfg) ==
    LET wallet_password == Or(a.password, cfg.wallet_password)
    IN  IF ~Truthy(wallet_password)
        THEN Finish(Failure(PasswordRequired))
        ELSE Send("POST", "/wallets/create",
                  [network |-> a.network, password |-> wallet_password], NoLoc)

create_wallet_resume(a, out) ==
    IF out.kind = "raise" THEN Finish(Failure(out.exc))
    ELSE IF ~HasKeys(out.val) THEN Finish(Failure(KeyError("wallet_id")))
    ELSE Finish([success |-> TRUE, wallet_id |-> "response.wallet_id",
                 address_0x |-> "response.address_0x",
                 address_0zk |-> "response.address_0zk", network |-> a.network,
                 message |-> "Wallet created successfully"])

\* ---- import_wallet, lines 138-177
import_wallet_body(a, cfg) ==
    LET wallet_password == Or(a.password, cfg.wallet_password)
    IN  IF ~Truthy(wallet_password)
        THEN Finish(Failure(PasswordRequired))
        ELSE Send("POST", "/wallets/import",
                  [private_key |-> a.private_key, network |-> a.network,
                   password |-> wallet_password], NoLoc)

import_wallet_resume(a, out) ==
    IF out.kind = "raise" THEN Finish(Failure(out.exc))
    ELSE IF ~HasKeys(out.val) THEN Finish(Failure(KeyError("wallet_id")))
    ELSE Finish([success |-> TRUE, wallet_id |-> "response.wallet_id",
                 address_0x |-> "response.address_0x",
                 address_0zk |-> "response.address_0zk", network |-> a.network])

\* ---- list_wallets, lines 180-195
list_wallets_body == Send("GET", "/wallets", [none |-> TRUE], NoLoc)

list_wallets_resume(out) ==
    IF out.kind = "raise" THEN Finish(Failure(out.exc))
    ELSE IF ~HasKeys(out.val) THEN Finish(Failure(KeyError("wallets")))
    ELSE Finish([success |-> TRUE, wallets |-> "response.wallets",
                 count |-> "len(response.wallets)"])

\* `if v: data[key] = v`: the key is added only for a truthy value.
SetIf(data, key, v) == IF Truthy(v) THEN data @@ (key :> v) ELSE data

\* ---- get_balance, lines 201-228
get_balance_body(a) ==
    Send("GET", "/balances",
         SetIf([wallet_id |-> a.wallet_id, include_private |-> a.include_private],
               "token_address", a.token_address),
         NoLoc)

get_balance_resume(a, out) ==
    IF out.kind = "raise" THEN Finish(Failure(out.exc))
    ELSE IF ~HasKeys(out.val) THEN Finish(Failure(KeyError("balances")))
    ELSE Finish([success |-> TRUE, wallet_id |-> a.wallet_id,
                 balances |-> "response.balances"])

\* ---- shield_tokens, lines 257-301: the password of the settings is put
\* into the payload as it is (line 282).
shield_tokens_body(a, cfg) ==
    Send("POST", "/transactions/shield",
         SetIf(SetIf([wallet_id |-> a.wallet_id,
                      token_address |-> a.token_address,
                      amount |-> a.amount,
                      password |-> cfg.wallet_password],
                     "recipient_0zk_address", a.recipient_0zk_address),
               "gas_price", a.gas_price),
         NoLoc)

shield_tokens_resume(a, out) ==
    IF out.kind = "raise" THEN Finish(Failure(out.exc))
    ELSE IF ~HasKeys(out.val) THEN Finish(Failure(KeyError("transaction_id")))
    ELSE Finish([success |-> TRUE, transaction_id |-> "response.transaction_id",
                 tx_hash |-> "response.tx_hash", status |-> "response.status",
                 gas_used |-> "response.gas_used",
                 message |-> "Shield transaction submitted successfully"])

\* ---- create_wallet_batch, lines 667-713
MaxBatch == 10

\* (Mutant: the limit is off by one.)
BatchTooLarge_OffByOne(count) == count > MaxBatch + 1

\* line 681
BatchTooLarge(count) == count > MaxBatch

create_wallet_batch_pre(a) ==
    IF BatchTooLarge(a.count)
    THEN Finish(Failure(Err("Maximum 10 wallets per batch", 0, "")))
    ELSE Continue

\* (Mutant: the loop runs once more, for i = count as well.)
create_wallet_batch_loop_OneMore(a, loc) ==
    IF loc.i <= a.count
    THEN Send("POST", "/wallets/create",
              [network |-> a.network,
               password |-> IF a.use_unique_passwords
                            THEN a.password_prefix \o "_" \o ToString(loc.i)
                            ELSE a.password_prefix],
              loc)
    ELSE Finish([success |-> TRUE, wallets_created |-> loc.wallets_created,
                 count |-> Len(loc.wallets_created), network |-> a.network,
                 message |-> "Created " \o ToString(a.count) \o " wallets successfully"])

\* The for loop of lines 687-703 at index loc.i, and the return after it.
create_wallet_batch_loop(a, loc) ==
    IF loc.i < a.count
    THEN Send("POST", "/wallets/create",
              [network |-> a.network,
               password |-> IF a.use_unique_passwords
                            THEN a.password_prefix \o "_" \o ToString(loc.i)
                            ELSE a.password_prefix],
              loc)
    ELSE Finish([success |-> TRUE, wallets_created |-> loc.wallets_created,
                 count |-> Len(loc.wallets_created), network |-> a.network,
                 message |-> "Created " \o ToString(a.count) \o " wallets successfully"])

create_wallet_batch_body(a) ==
    create_wallet_batch_loop(a, [i |-> 0, wallets_created |-> <<>>])

create_wallet_batch_resume(a, loc, out) ==
    IF out.kind = "raise" THEN Finish(Failure(out.exc))
    ELSE IF ~HasKeys(out.val) THEN Finish(Failure(KeyError("wallet_id")))
    ELSE create_wallet_batch_loop(a,
           [i |-> loc.i + 1,
            wallets_created |->
                Append(loc.wallets_created,
                       [wallet_id |-> "response.wallet_id",
                        address_0x |-> "response.address_0x",
                        address_0zk |-> "response.address_0zk",
                        index |-> loc.i])])

\* ---- distribute_tokens, lines 716-787
\* An Optional[List[str]]: None, or the list.
NoneList == [is_none |-> TRUE, items |-> <<>>]
List(items) == [is_none |-> FALSE, items |-> items]

\* (Mutant: only None is falsy, the empty list is taken as a list of amounts.)
ListFalsy_NoneOnly(l) == l.is_none

\* `not amounts`: None and the empty list are falsy.
ListFalsy(l) == l.is_none \/ l.items = <<>>

\* lines 741-742
EqualAmounts(total_amount, n) ==
    LET amount_per_wallet == str(FloorDiv(int(total_amount), n))
    IN  [i \in 1..n |-> amount_per_wallet]

\* lines 757-785: the transfer loop at the next destination, and the return
\* after it.  amounts[i] is evaluated while the request is built.
distribute_transfers(a, loc, cfg) ==
    LET i == Len(loc.transfers) + 1
    IN  IF i <= Len(loc.destinations)
        THEN IF loc.amounts.is_none
             THEN Finish(Failure(Err("TypeError", 0, "'NoneType' object is not subscriptable")))
             ELSE IF i > Len(loc.amounts.items)
             THEN Finish(Failure(Err("IndexError", 0, "list index out of range")))
             ELSE Send("POST", "/transactions/private-transfer",
                       [wallet_id |-> a.source_wallet_id,
                        token_address |-> a.token_address,
                        amount |-> loc.amounts.items[i],
                        recipient_0zk_address |-> loc.destinations[i].address_0zk,
                        password |-> cfg.wallet_password],
                       [loc EXCEPT !.phase = "transfer"])
        ELSE Finish([success |-> TRUE, source_wallet |-> a.source_wallet_id,
                     transfers |-> loc.transfers,
                     total_distributed |-> a.total_amount,
                     message |-> "Distributed tokens to " \o
                                 ToString(Len(loc.transfers)) \o " wallets"])

\* (Mutant: the lookup loop stops one destination early.)
distribute_lookups_StopEarly(a, loc, cfg) ==
    LET i == Len(loc.destinations) + 1
    IN  IF i < Len(a.destination_wallet_ids)
        THEN Send("GET", "/wallets/" \o a.destination_wallet_ids[i],
                  [none |-> TRUE], [loc EXCEPT !.phase = "lookup"])
        ELSE distribute_transfers(a, loc, cfg)

\* lines 750-755: the lookup loop at the next destination.
distribute_lookups(a, loc, cfg) ==
    LET i == Len(loc.destinations) + 1
    IN  IF i <= Len(a.destination_wallet_ids)
        THEN Send("GET", "/wallets/" \o a.destination_wallet_ids[i],
                  [none |-> TRUE], [loc EXCEPT !.phase = "lookup"])
        ELSE distribute_transfers(a, loc, cfg)

distribute_start(a, amounts, cfg) ==
    distribute_lookups(a, [amounts |-> amounts, destinations |-> <<>>,
                           transfers |-> <<>>, phase |-> "lookup"], cfg)

\* lines 738-747, then the loops.
distribute_tokens_body(a, cfg) ==
    IF a.distribution_type = "equal"
    THEN IF ~IntParses(a.total_amount)
         THEN Finish(Failure(Err("ValueError", 0, "invalid literal for int()")))
         ELSE IF Len(a.destination_wallet_ids) = 0
         THEN Finish(Failure(Err("ZeroDivisionError", 0,
                                 "integer division or modulo by zero")))
         ELSE distribute_start(a,
                List(EqualAmounts(a.total_amount, Len(a.destination_wallet_ids))),
                cfg)
    ELSE IF a.distribution_type = "custom" /\ ListFalsy(a.amounts)
    THEN Finish(Failure(Err("Custom amounts required for custom distribution", 0, "")))
    ELSE distribute_start(a, a.amounts, cfg)

\* (Mutant: a transfer that raised is sent again.)
distribute_tokens_resume_Retry(a, loc, out, cfg) ==
    IF out.kind = "raise"
    THEN IF loc.phase = "transfer" THEN distribute_transfers(a, loc, cfg)
         ELSE Finish(Failure(out.exc))
    ELSE IF loc.phase = "lookup"
    THEN IF ~HasKeys(out.val) THEN Finish(Failure(KeyError("address_0zk")))
         ELSE LET wallet_id == a.destination_wallet_ids[Len(loc.destinations) + 1]
              IN  distribute_lookups(a,
                    [loc EXCEPT !.destinations =
                        Append(@, [wallet_id |-> wallet_id,
                                   address_0zk |-> "0zk:" \o wallet_id])],
                    cfg)
    ELSE IF ~HasKeys(out.val) THEN Finish(Failure(KeyError("tx_hash")))
         ELSE LET i == Len(loc.transfers) + 1
              IN  distribute_transfers(a,
                    [loc EXCEPT !.transfers =
                        Append(@, [to_wallet |-> loc.destinations[i].wallet_id,
                                   amount |-> loc.amounts.items[i],
                                   tx_hash |-> "response.tx_hash",
                                   status |-> "response.status"])],
                    cfg)

distribute_tokens_resume(a, loc, out, cfg) ==
    IF out.kind = "raise" THEN Finish(Failure(out.exc))
    ELSE IF loc.phase = "lookup"
    THEN IF ~HasKeys(out.val) THEN Finish(Failure(KeyError("address_0zk")))
         ELSE LET wallet_id == a.destination_wallet_ids[Len(loc.destinations) + 1]
              IN  distribute_lookups(a,
                    [loc EXCEPT !.destinations =
                        Append(@, [wallet_id |-> wallet_id,
                                   address_0zk |-> "0zk:" \o wallet_id])],
                    cfg)
    ELSE IF ~HasKeys(out.val) THEN Finish(Failure(KeyError("tx_hash")))
         ELSE LET i == Len(loc.transfers) + 1
              IN  distribute_transfers(a,
                    [loc EXCEPT !.transfers =
                        Append(@, [to_wallet |-> loc.destinations[i].wallet_id,
                                   amount |-> loc.amounts.items[i],
                                   tx_hash |-> "response.tx_hash",
                                   status |-> "response.status"])],
                    cfg)

\* ---- float() of a decimal text
\* float(s) for the texts used here, digits with at most one point and no
\* sign or exponent; anything else raises ValueError.
FloatParses(s) ==
    LET parts == split(s, ".")
    IN  /\ Len(parts) <= 2
        /\ \A p \in DOMAIN parts : \A i \in DOMAIN parts[p] : IsDigit(parts[p][i])
        /\ \E p \in DOMAIN parts : parts[p] # <<>>

\* float(s) > 0
FloatPositive(s) == \E i \in DOMAIN s : IsDigit(s[i]) /\ s[i] # "0"

\* The first d digits of the fraction frac, zeros added when it is shorter.
RECURSIVE FractionDigits(_, _)
FractionDigits(frac, d) ==
    IF d = 0 THEN <<>>
    ELSE IF frac = <<>> THEN <<"0">> \o FractionDigits(frac, d - 1)
    ELSE <<Head(frac)>> \o FractionDigits(Tail(frac), d - 1)

\* int(float(s) * 10 ** d): the point moved d places to the right and the
\* rest of the fraction dropped.
ScaleToInt(s, d) ==
    LET parts == split(s, ".")
        frac  == IF Len(parts) = 2 THEN parts[2] ELSE <<>>
    IN  DigitsVal(parts[1] \o FractionDigits(frac, d), 0)

\* The token symbol a piece of the amount text spells.
Symbol(chars) ==
    CASE chars = <<"U", "S", "D", "C">> -> "USDC"
      [] chars = <<"W", "B", "T", "C">> -> "WBTC"
      [] OTHER -> "?"

\* ---- just_send_money, lines 1005-1081
\* line 1029
decimals == ("USDC" :> 6) @@ ("USDT" :> 6) @@ ("DAI" :> 18) @@ ("ETH" :> 18)
DefaultDecimals == 18

\* decimals.get(token, 18)
DecimalsOf(token) ==
    IF token \in DOMAIN decimals THEN decimals[token] ELSE DefaultDecimals

\* Reading transfer_response where no assignment of it has run (the text of
\* the message is that of Python 3.11 and later).
UnboundTransferResponse ==
    Err("UnboundLocalError", 0,
        "cannot access local variable 'transfer_response' where it is not associated with a value")

\* The f-strings of steps_taken and of the message, kept as their parts.
ShieldedStep(shield_amount, token) ==
    [step |-> "Shielded", units |-> shield_amount, decimals |-> decimals[token],
     token |-> token]
SentStep(amount, token, how) == [step |-> "Sent", amount |-> amount, token |-> token, how |-> how]
SentMessage(amount, token, to) ==
    [text |-> "Sent", amount |-> amount, token |-> token,
     to |-> SubSeq(to, 1, IF Len(to) < 8 THEN Len(to) ELSE 8)]

\* lines 1072-1079: the return.  transfer_response is bound only on the
\* private path.
just_send_money_return(a, loc, steps_taken, transfer_response) ==
    IF ~a.keep_private THEN Finish(Failure(UnboundTransferResponse))
    ELSE Finish([success |-> TRUE,
                 message |-> SentMessage(loc.amount, loc.token, a.to),
                 steps_taken |-> steps_taken,
                 tx_hash |-> IF "tx_hash" \in DOMAIN transfer_response
                             THEN transfer_response.tx_hash ELSE None,
                 privacy_level |-> IF a.keep_private THEN "Fully Private" ELSE "Public",
                 estimated_time |-> "2-5 minutes"])

\* lines 1055-1066: the private transfer.
just_send_money_transfer(a, loc, cfg) ==
    Send("POST", "/transactions/private-transfer",
         [wallet_id |-> a.wallet_id, token_address |-> "0x...",
          amount |-> loc.amount_wei, recipient_0zk_address |-> a.to,
          password |-> cfg.wallet_password],
         [loc EXCEPT !.phase = "transfer"])

\* lines 1021-1036 and 1067-1070
just_send_money_body(a, cfg) ==
    LET parts  == split(a.amount, " ")
        spaced == Contains(a.amount, " ")
        amount == IF spaced THEN parts[1] ELSE a.amount
        token  == IF spaced THEN Symbol(parts[2]) ELSE a.token
    IN  IF spaced /\ Len(parts) # 2
        THEN Finish(Failure(Err("ValueError", 0, "too many values to unpack (expected 2)")))
        ELSE IF ~FloatParses(amount)
        THEN Finish(Failure(Err("ValueError", 0, "could not convert string to float")))
        ELSE LET loc == [phase |-> "balances", amount |-> amount, token |-> token,
                         amount_wei |-> str(ScaleToInt(amount, DecimalsOf(token))),
                         private_balance |-> <<>>, shield_amount |-> <<>>,
                         steps_taken |-> <<>>]
             IN  IF a.keep_private
                 THEN Send("GET", "/balances", [wallet_id |-> a.wallet_id], loc)
                 ELSE just_send_money_return(a, loc,
                         <<SentStep(amount, token, "publicly")>>, EmptyObject)

\* lines 1036-1066 after each response: the balances, the shield, the
\* transfer.
just_send_money_resume(a, loc, out, cfg) ==
    IF out.kind = "raise" THEN Finish(Failure(out.exc))
    ELSE IF loc.phase = "balances"
    THEN LET balances == Doc(out.val)
         IN  IF "balances" \notin DOMAIN balances
             THEN Finish(Failure(KeyError("balances")))
             ELSE IF "private" \notin DOMAIN balances.balances
             THEN Finish(Failure(KeyError("private")))
             ELSE LET private_balance ==
                          DictGet(balances.balances.private, loc.token, <<"0">>)
                  IN  IF ~IntParses(private_balance)
                      THEN Finish(Failure(Err("ValueError", 0, "invalid literal for int()")))
                      ELSE IF int(private_balance) < int(loc.amount_wei)
                      THEN LET shield_amount ==
                                   str(int(loc.amount_wei) - int(private_balance))
                           IN  Send("POST", "/transactions/shield",
                                    [wallet_id |-> a.wallet_id, token_address |-> "0x...",
                                     amount |-> shield_amount,
                                     password |-> cfg.wallet_password],
                                    [loc EXCEPT !.phase = "shield",
                                                !.private_balance = private_balance,
                                                !.shield_amount = shield_amount])
                      ELSE just_send_money_transfer(a,
                              [loc EXCEPT !.private_balance = private_balance], cfg)
    ELSE IF loc.phase = "shield"
    THEN IF loc.token \notin DOMAIN decimals
         THEN Finish(Failure(KeyError(loc.token)))
         ELSE just_send_money_transfer(a,
                 [loc EXCEPT !.steps_taken =
                     Append(@, ShieldedStep(loc.shield_amount, loc.token))], cfg)
    ELSE just_send_money_return(a, loc,
            Append(loc.steps_taken, SentStep(loc.amount, loc.token, "privately")),
            Doc(out.val))

\* ---- fix_stuck_transaction, lines 1151-1202
Gwei == 1000000000
LowGasGwei == 20
OldMinutes == 30

\* stuck_tx.get(key, 0)
FieldOr0(obj, key) == IF key \in DOMAIN obj THEN obj[key] ELSE 0

\* f"{gas_price / 10**9} gwei", for a gas price that is a whole number of gwei.
GweiText(gas_price) == ToString(gas_price \div Gwei) \o ".0 gwei"

fix_stuck_transaction_body(a) ==
    Send("GET", "/transactions",
         [wallet_id |-> a.wallet_id, limit |-> 10, status |-> "pending"], NoLoc)

\* line 1178: stuck_tx = txs["transactions"][0]
StuckTx(a, transactions) == transactions[1]

\* lines 1172-1200; gas_price < 20 * 10**9 is taken in whole gwei.
fix_stuck_transaction_resume(a, out) ==
    IF out.kind = "raise" THEN Finish(Failure(out.exc))
    ELSE LET txs == Doc(out.val)
         IN  IF "transactions" \notin DOMAIN txs
             THEN Finish(Failure(KeyError("transactions")))
             ELSE IF txs.transactions = <<>>
             THEN Finish([success |-> TRUE,
                          message |-> "No stuck transactions found! You're all good"])
             ELSE LET stuck_tx == StuckTx(a, txs.transactions)
                      low == IF FieldOr0(stuck_tx, "gas_price") \div Gwei < LowGasGwei
                             THEN <<"Gas price too low. Need to speed up with higher gas.">>
                             ELSE <<>>
                      old == IF FieldOr0(stuck_tx, "age_minutes") > OldMinutes
                             THEN <<"Transaction is old. May need to cancel and retry.">>
                             ELSE <<>>
                  IN  IF "id" \notin DOMAIN stuck_tx THEN Finish(Failure(KeyError("id")))
                      ELSE IF "type" \notin DOMAIN stuck_tx
                      THEN Finish(Failure(KeyError("type")))
                      ELSE Finish(
                             [success |-> TRUE,
                              stuck_transaction |->
                                 [id |-> stuck_tx.id, type |-> stuck_tx.type,
                                  age |-> ToString(FieldOr0(stuck_tx, "age_minutes"))
                                             \o " minutes",
                                  gas_price |-> GweiText(FieldOr0(stuck_tx, "gas_price"))],
                              solutions |-> low \o old,
                              quick_fix |-> "Try cancelling and resending with 50% higher gas price",
                              prevent_future |-> "Always check gas prices before sending"])

\* ---- emergency_exit, lines 1265-1331
UnshieldGas == 180000
TransferGas == 65000

\* (Mutant: `token != "ETH"` is lost, public ETH is planned as well.)
RECURSIVE PlannedExits_WithEth(_, _, _, _)
PlannedExits_WithEth(entries, type, gas_estimate, skip) ==
    IF entries = <<>> THEN <<>>
    ELSE LET e == Head(entries)
             rest == PlannedExits_WithEth(Tail(entries), type, gas_estimate, skip)
         IN  IF FloatPositive(e.value)
             THEN <<[token |-> e.key, amount |-> e.value, type |-> type,
                     gas_estimate |-> gas_estimate]>> \o rest
             ELSE rest

\* The entries of the two loops of lines 1291-1313, in order.
RECURSIVE PlannedExits(_, _, _, _)
PlannedExits(entries, type, gas_estimate, skip) ==
    IF entries = <<>> THEN <<>>
    ELSE LET e == Head(entries)
             rest == PlannedExits(Tail(entries), type, gas_estimate, skip)
         IN  IF FloatPositive(e.value) /\ e.key \notin skip
             THEN <<[token |-> e.key, amount |-> e.value, type |-> type,
                     gas_estimate |-> gas_estimate]>> \o rest
             ELSE rest

\* f"{total_cost_eth:.4f} ETH", for a cost below 5 * 10**13 wei.
CostText(wei) == "0.0000 ETH"

emergency_exit_body(a) ==
    Send("GET", "/balances", [wallet_id |-> a.wallet_id, include_private |-> TRUE],
         [phase |-> "balances", balances |-> EmptyObject, exits |-> <<>>])

\* lines 1287-1329 after each response: the balances, the gas price.
emergency_exit_resume(a, loc, out) ==
    IF out.kind = "raise" THEN Finish(Failure(out.exc))
    ELSE IF loc.phase = "balances"
    THEN LET balances == Doc(out.val)
         IN  IF "balances" \notin DOMAIN balances
             THEN Finish(Failure(KeyError("balances")))
             ELSE IF "private" \notin DOMAIN balances.balances
             THEN Finish(Failure(KeyError("private")))
             ELSE LET private == balances.balances.private
                      public  == balances.balances.public
                  IN  IF \E i \in DOMAIN private : ~FloatParses(private[i].value)
                      THEN Finish(Failure(Err("ValueError", 0,
                                              "could not convert string to float")))
                      ELSE IF "public" \notin DOMAIN balances.balances
                      THEN Finish(Failure(KeyError("public")))
                      ELSE IF \E i \in DOMAIN public : ~FloatParses(public[i].value)
                      THEN Finish(Failure(Err("ValueError", 0,
                                              "could not convert string to float")))
                      ELSE Send("GET", "/gas-price/ethereum", [none |-> TRUE],
                                [phase |-> "gas", balances |-> balances,
                                 exits |-> PlannedExits(private, "unshield", UnshieldGas, {})
                                           \o PlannedExits(public, "transfer", TransferGas,
                                                           {"ETH"})])
    ELSE LET gas_price == Doc(out.val)
             total_gas_needed ==
                 SeqSum([i \in 1..Len(loc.exits) |-> loc.exits[i].gas_estimate])
         IN  IF "gas_price" \notin DOMAIN gas_price
             THEN Finish(Failure(KeyError("gas_price")))
             ELSE IF ~IntParses(gas_price.gas_price)
             THEN Finish(Failure(Err("ValueError", 0, "invalid literal for int()")))
             ELSE Finish(
                    [success |-> TRUE,
                     exit_plan |->
                        [steps |-> Len(loc.exits),
                         tokens_to_move |-> [i \in 1..Len(loc.exits) |-> loc.exits[i].token],
                         estimated_time |-> ToString(Len(loc.exits) * 2) \o " minutes",
                         estimated_cost |->
                            CostText(total_gas_needed * int(gas_price.gas_price)),
                         destination |-> a.destination],
                     warning |-> "This will move ALL funds and reduce privacy!",
                     execute_command |-> "Use execute_emergency_exit to proceed"])

\* ---- mix_tokens, lines 790-820: no request is sent.
mix_tokens_body(a) ==
    Finish([success |-> TRUE, message |-> "Token mixing initiated",
            wallets |-> Len(a.wallet_ids), rounds |-> a.mixing_rounds,
            estimated_time |-> a.mixing_rounds * a.delay_seconds * Len(a.wallet_ids)])

\* ---- check_config, lines 1382-1401: no try block and no client.
\* line 1394: v.split("/")[2] if "/" in v else v
RpcHost(v) == IF Contains(v, "/") THEN split(v, "/")[3] ELSE v
RpcHostRaises(v) == Contains(v, "/") /\ Len(split(v, "/")) < 3

check_config_pre(cfg) ==
    IF \E k \in DOMAIN cfg.rpc_endpoints : RpcHostRaises(cfg.rpc_endpoints[k])
    THEN Escape(Err("IndexError", 0, "list index out of range"))
    ELSE Finish([success |-> TRUE,
                 config |-> [private_key_set |-> Truthy(cfg.private_key),
                             wallet_password_set |-> Truthy(cfg.wallet_password),
                             railgun_contracts |-> cfg.railgun_contracts,
                             rpc_endpoints |->
                                 [k \in DOMAIN cfg.rpc_endpoints |->
                                     RpcHost(cfg.rpc_endpoints[k])]],
                 warning |-> "fake API calls", required_fix |-> "see docs",
                 message |-> "how to configure"])

\* (Mutant: check_config shortens the RPC URLs of the settings in place.)
ConfigAfter_MasksRpc(h, cfg) ==
    IF h = "check_config" /\ \A k \in DOMAIN cfg.rpc_endpoints :
                                ~RpcHostRaises(cfg.rpc_endpoints[k])
    THEN [cfg EXCEPT !.rpc_endpoints = [k \in DOMAIN @ |-> RpcHost(@[k])]]
    ELSE cfg

\* The settings as a step of handler h leaves them: the handlers read config
\* (lines 113, 282, 766, 1390-1396) and never assign to it or to one of its
\* dictionaries; check_config builds its rpc_endpoints in a new dictionary.
ConfigAfter(h, cfg) == cfg

\* ---- the three parts of every handler, by handler name
HandlerPre(h, a, cfg) ==
    CASE h = "create_wallet_batch" -> create_wallet_batch_pre(a)
      [] h = "check_config" -> check_config_pre(cfg)
      [] OTHER -> Continue

HandlerBody(h, a, cfg) ==
    CASE h = "create_wallet" -> create_wallet_body(a, cfg)
      [] h = "import_wallet" -> import_wallet_body(a, cfg)
      [] h = "list_wallets" -> list_wallets_body
      [] h = "get_balance" -> get_balance_body(a)
      [] h = "shield_tokens" -> shield_tokens_body(a, cfg)
      [] h = "create_wallet_batch" -> create_wallet_batch_body(a)
      [] h = "distribute_tokens" -> distribute_tokens_body(a, cfg)
      [] h = "mix_tokens" -> mix_tokens_body(a)
      [] h = "just_send_money" -> just_send_money_body(a, cfg)
      [] h = "fix_stuck_transaction" -> fix_stuck_transaction_body(a)
      [] h = "emergency_exit" -> emergency_exit_body(a)

HandlerResume(h, a, loc, out, cfg) ==
    CASE h = "create_wallet" -> create_wallet_resume(a, out)
      [] h = "import_wallet" -> import_wallet_resume(a, out)
      [] h = "list_wallets" -> list_wallets_resume(out)
      [] h = "get_balance" -> get_balance_resume(a, out)
      [] h = "shield_tokens" -> shield_tokens_resume(a, out)
      [] h = "create_wallet_batch" -> create_wallet_batch_resume(a, loc, out)
      [] h = "distribute_tokens" -> distribute_tokens_resume(a, loc, out, cfg)
      [] h = "just_send_money" -> just_send_money_resume(a, loc, out, cfg)
      [] h = "fix_stuck_transaction" -> fix_stuck_transaction_resume(a, out)
      [] h = "emergency_exit" -> emergency_exit_resume(a, loc, out)

-----------------------------------------------------------------------------
(***************************************************************************)
(* The event loop: handler invocations as tasks                            *)
(*                                                                         *)
(* A task runs without interruption from one suspension point to the next. *)
(* The only suspension points of a handler are its awaited HTTP requests:  *)
(* `await get_api_client()` and, inside it, `await ...__aenter__()` call   *)
(* coroutines that never wait on anything, so control stays with the task. *)
(* running names the task that holds the loop; while it is set no other    *)
(* task takes a step.                                                      *)
(***************************************************************************)

\* Whether a task at pc keeps the event loop: "gac" (at line 79), "aenter"
\* (past the test of line 79, at the await of line 85) and "body" (back in the
\* handler) do; a task awaiting a response, or not running, does not.
\* (Mutant: the await of line 85 gives up the loop.)
HoldsLoop_AenterSuspends(pc) == pc \in {"gac", "body"}

HoldsLoop(pc) == pc \in {"gac", "aenter", "body"}

LoopAfter(t, pc) == IF HoldsLoop(pc) THEN t ELSE NoRef

NTasks == 2
Tasks == 1..NTasks

NoResult == [pending |-> TRUE]

IdleTask ==
    [h |-> "-", args |-> [none |-> TRUE], pc |-> "idle", client |-> NoRef,
     loc |-> NoLoc, result |-> NoResult]

\* Task t may take its next step: it holds the loop, or the loop is idle and
\* t is what the loop picks up next.
MayStep(t) == running = LoopAfter(t, task[t].pc)

\* The task record after a step of its handler.  A request is sent through
\* the task's client; client.get / client.post raise inside the handler's try
\* block when the client has no usable session.
TaskAfter(tk, step, w) ==
    CASE step.op = "finish" -> [tk EXCEPT !.pc = "done", !.result = step.result]
      [] step.op = "raise" ->
            [tk EXCEPT !.pc = "raised", !.result = [exception |-> step.exc]]
      [] step.op = "send" ->
            IF SessionUsable(w, tk.client)
            THEN [tk EXCEPT !.pc = "await", !.loc = step.loc]
            ELSE [tk EXCEPT !.pc = "done",
                            !.result = Failure(SessionError(w, tk.client))]

\* The URL is f"{self.api_url}{endpoint}" (lines 51 and 62).
Request(tk, step, w) ==
    [method |-> step.method, endpoint |-> step.endpoint, data |-> step.data,
     url |-> w.clients[tk.client].api_url \o step.endpoint,
     client |-> tk.client, session |-> w.clients[tk.client].session]

SentAfter(t, tk, step, w) ==
    IF step.op = "send" /\ SessionUsable(w, tk.client)
    THEN [sent EXCEPT ![t] = Append(@, Request(tk, step, w))]
    ELSE sent

\* The framework calls handler h with arguments a in task t: the handler runs
\* up to its `await get_api_client()` (check_config, which has none, runs to
\* its end).
Invoke(t, h, a) ==
    /\ cfgpc = "loaded"
    /\ MayStep(t)
    /\ task[t].pc = "idle"
    /\ LET pre == HandlerPre(h, a, config)
           tk  == [IdleTask EXCEPT !.h = h, !.args = a]
       IN  IF pre.op = "continue"
           THEN task' = [task EXCEPT ![t] = [tk EXCEPT !.pc = "gac"]]
           ELSE task' = [task EXCEPT ![t] = TaskAfter(tk, pre, World)]
    /\ running' = LoopAfter(t, task'[t].pc)
    /\ config' = ConfigAfter(h, config)
    /\ UNCHANGED <<env, file, cfgpc, api_client, clients, sessions, sent, last>>

\* get_api_client, lines 79-83 and 88: the test of the global, the raise when
\* no key is configured, the return of the existing client.
GacCheck(t) ==
    /\ MayStep(t)
    /\ task[t].pc = "gac"
    /\ IF ~ClientMissing(World)
       THEN task' = [task EXCEPT ![t].pc = "body", ![t].client = api_client]
       ELSE IF KeyMissing(config)
       THEN task' = [task EXCEPT ![t].pc = "done",
                                 ![t].result = Failure(NotConfigured)]
       ELSE task' = [task EXCEPT ![t].pc = "aenter"]
    /\ running' = LoopAfter(t, task'[t].pc)
    /\ UNCHANGED <<env, file, config, cfgpc, api_client, clients, sessions, sent, last>>

\* get_api_client, lines 85-88: the client is built, entered, stored in the
\* global and returned.
GacCreate(t) ==
    /\ MayStep(t)
    /\ task[t].pc = "aenter"
    /\ LET w == CreateApiClient(World, config)
       IN  /\ api_client' = w.api_client
           /\ clients' = w.clients
           /\ sessions' = w.sessions
           /\ task' = [task EXCEPT ![t].pc = "body", ![t].client = w.api_client]
    /\ running' = LoopAfter(t, task'[t].pc)
    /\ UNCHANGED <<env, file, config, cfgpc, sent, last>>

\* The handler from the return of get_api_client to its first request or its
\* return.
RunBody(t) ==
    /\ MayStep(t)
    /\ task[t].pc = "body"
    /\ LET step == HandlerBody(task[t].h, task[t].args, config)
       IN  /\ task' = [task EXCEPT ![t] = TaskAfter(@, step, World)]
           /\ sent' = SentAfter(t, task[t], step, World)
    /\ running' = LoopAfter(t, task'[t].pc)
    /\ config' = ConfigAfter(task[t].h, config)
    /\ UNCHANGED <<env, file, cfgpc, api_client, clients, sessions, last>>

\* The awaited request of task t ends with resp (status 0: the connection
\* failed); the loop resumes the handler, which runs to its next request or to
\* its return.
Respond(t, resp) ==
    /\ MayStep(t)
    /\ task[t].pc = "await"
    /\ LET out  == ClientCall(sent[t][Len(sent[t])].method, resp)
           step == HandlerResume(task[t].h, task[t].args, task[t].loc, out, config)
       IN  /\ task' = [task EXCEPT ![t] = TaskAfter(@, step, World)]
           /\ sent' = SentAfter(t, task[t], step, World)
    /\ running' = LoopAfter(t, task'[t].pc)
    /\ config' = ConfigAfter(task[t].h, config)
    /\ UNCHANGED <<env, file, cfgpc, api_client, clients, sessions, last>>

\* Config() of line 27 of server.py, run when the module is imported.
ConstructConfig ==
    /\ cfgpc = "start"
    /\ config' = ConfigInit(env, file).cfg
    /\ cfgpc' = IF ConfigInit(env, file).raised THEN "raised" ELSE "loaded"
    /\ UNCHANGED <<env, file, api_client, clients, sessions, running, task, sent, last>>

-----------------------------------------------------------------------------
(***************************************************************************)
(* Inputs                                                                  *)
(***************************************************************************)

EnvUrl == <<"s", ":", "/", "/", "x", "/", "r">>  \* scheme://host/path
BareUrl == <<"x", ":", "8">>                     \* host:port
PathUrl == <<"x", "/", "r">>                     \* host/path, no scheme
FileUrl == <<"s", ":", "/", "/", "f", "/", "r">>

Environ(pk, pw, rpc) ==
    [v \in EnvVars |->
        IF v = "RAILGUN_PRIVATE_KEY" THEN pk
        ELSE IF v = "RAILGUN_WALLET_PASSWORD" THEN pw
        ELSE rpc[CHOOSE n \in Networks : RpcEnvVar[n] = v]]

NoRpcEnv == [n \in Networks |-> NoUrl]

AbsentFile == [state |-> "absent"]

NoLast == [op |-> "-"]

\* The server just imported, no client yet, no invocation yet.
Fresh ==
    /\ api_client = NoRef
    /\ clients = <<>>
    /\ sessions = <<>>
    /\ running = NoRef
    /\ task = [t \in Tasks |-> IdleTask]
    /\ sent = [t \in Tasks |-> <<>>]
    /\ last = NoLast

-----------------------------------------------------------------------------
(***************************************************************************)
(* Spec: concurrent handler invocations on the event loop                  *)
(***************************************************************************)

Statuses == {200, 500}
Responses == [status : Statuses, text : {"{...}"}] \cup {[status |-> 0, text |-> ""]}

Init ==
    /\ \E pk \in {None, "env-key"}, pw \in {None, "env-pw"} :
          env = Environ(pk, pw, NoRpcEnv)
    /\ file = AbsentFile
    /\ config = ConfigInit(env, file).cfg
    /\ cfgpc = "loaded"
    /\ Fresh

CreateWalletArgs == [network : {"ethereum"}, password : {None, "", "pw"}]

call_create_wallet(t) == \E a \in CreateWalletArgs : Invoke(t, "create_wallet", a)

call_list_wallets(t) == Invoke(t, "list_wallets", [none |-> TRUE])

MixArgs ==
    [wallet_ids : {<<"w1", "w2">>}, token_address : {"0xT"},
     mixing_rounds : {3}, delay_seconds : {30}]

call_mix_tokens(t) == \E a \in MixArgs : Invoke(t, "mix_tokens", a)

call_check_config(t) == Invoke(t, "check_config", [none |-> TRUE])

Response(t) == \E resp \in Responses : Respond(t, resp)

Next ==
    \E t \in Tasks :
        \/ call_create_wallet(t)
        \/ call_list_wallets(t)
        \/ call_mix_tokens(t)
        \/ call_check_config(t)
        \/ GacCheck(t)
        \/ GacCreate(t)
        \/ RunBody(t)
        \/ Response(t)

Spec == Init /\ [][Next]_vars

\* A task has been through get_api_client and holds the client it returned.
HasClient(t) == task[t].client # NoRef

\* A task is inside get_api_client.
InGetApiClient(t) == task[t].pc \in {"gac", "aenter"}

\* C9 as claimed: with the credential configured and the global unset, a
\* second invocation can run while a first one is inside get_api_client past
\* its test of the global (so that both build a client).  Stated for every
\* such state: whenever a task waits at line 85 and another invocation is
\* pending, that invocation can start.
C9_Original ==
    \A t \in Tasks :
        (task[t].pc = "aenter" /\ \E u \in Tasks \ {t} : task[u].pc = "idle")
            => \E u \in Tasks \ {t} : ENABLED call_list_wallets(u)

\* C9 as amended: no two invocations are ever inside get_api_client at once,
\* nothing else runs while one is, and concurrent invocations end up with one
\* client and one session between them.
C9_Amended ==
    /\ \A t \in Tasks :
          InGetApiClient(t) =>
              /\ running = t
              /\ \A u \in Tasks \ {t} : ~InGetApiClient(u)
    /\ \A t, u \in Tasks : HasClient(t) /\ HasClient(u) => task[t].client = task[u].client
    /\ Len(clients) <= 1
    /\ Len(sessions) <= 1

\* Two invocations in flight at once, the first of which found the global
\* unset: both await a response over the one client.
C9_Witness ==
    /\ Truthy(config.private_key)
    /\ \A t \in Tasks : task[t].pc = "await" /\ task[t].client = 1
    /\ Len(clients) = 1

\* C10: with no cleanup_api_client in between, at most one client and one
\* session are ever created, get_api_client hands out the existing client
\* whenever there is one, and every request goes through that client and its
\* session.
C10_OneSharedClient ==
    /\ Len(clients) <= 1
    /\ Cardinality({i \in DOMAIN sessions : ~sessions[i].closed}) <= 1
    /\ \A t \in Tasks :
          /\ HasClient(t) => task[t].client = api_client
          /\ \A i \in DOMAIN sent[t] :
                /\ sent[t][i].client = api_client
                /\ sent[t][i].session = clients[api_client].session
                /\ ~sessions[sent[t][i].session].closed

\* Every invocation has sent a request, one after the other had finished or
\* while it was in flight.
C10_Witness ==
    /\ \A t \in Tasks : Len(sent[t]) >= 1 /\ task[t].client = api_client
    /\ \E t \in Tasks : task[t].pc = "done"

-----------------------------------------------------------------------------
(***************************************************************************)
(* SpecConfig: Config() over environments and config files, then           *)
(* check_config on what it loaded                                          *)
(***************************************************************************)

ConfigEnvs ==
    {Environ(pk, pw, rpc) :
        pk \in {None, "", "env-key"}, pw \in {None, "env-pw"},
        rpc \in {r \in [Networks -> {NoUrl, EnvUrl, BareUrl, PathUrl}] :
                    \A n \in Networks \ {"ethereum"} : r[n] \in {NoUrl, EnvUrl}}}

Missing == [kind |-> "missing", val |-> <<>>]
Other   == [kind |-> "other", val |-> <<>>]
Object(v) == [kind |-> "object", val |-> v]

FileRpcs ==
    {Missing, Other, Object(<<>>),
     Object([n \in {"ethereum"} |-> FileUrl]),
     Object([n \in {"arbitrum", "polygon", "bsc"} |-> FileUrl]),
     Object([n \in Networks |-> FileUrl])}

Entry(network, kind, val) == [network |-> network, kind |-> kind, val |-> val]

FileContracts ==
    {Missing, Other,
     Object(<<Entry("ethereum", "object", [proxy |-> "0xF1"])>>),
     Object(<<Entry("arbitrum", "object", [proxy |-> "0xF2"])>>),
     Object(<<Entry("polygon", "object", [verifier |-> "0xF3", extra |-> "0xF4"]),
              Entry("ethereum", "other", <<>>),
              Entry("bsc", "object", [proxy |-> "0xF5"])>>)}

ConfigFiles ==
    {[state |-> st] : st \in {"absent", "unreadable", "malformed", "nonobject"}}
    \cup
    {[state |-> "object",
      data |-> [private_key |-> pk, wallet_password |-> pw,
                rpc_endpoints |-> rpc, railgun_contracts |-> rc]] :
        pk \in {None, "file-key"}, pw \in {None, "file-pw"},
        rpc \in FileRpcs, rc \in FileContracts}

NoConfig == [unset |-> TRUE]

InitConfig ==
    /\ env \in ConfigEnvs
    /\ file \in ConfigFiles
    /\ config = NoConfig
    /\ cfgpc = "start"
    /\ Fresh

NextConfig ==
    \/ ConstructConfig
    \/ call_check_config(1)

SpecConfig == InitConfig /\ [][NextConfig]_vars

\* A setting is present in the environment, in the config file.
InEnv(name) == Truthy(env[name])
FileHas(key) == file.state = "object" /\ Truthy(file.data[key])
FileHasRpc(n) ==
    /\ file.state = "object"
    /\ file.data.rpc_endpoints.kind = "object"
    /\ n \in DOMAIN file.data.rpc_endpoints.val

\* The value the stated precedence gives: environment, else file, else default.
Precedence(inEnv, envVal, inFile, fileVal, default) ==
    IF inEnv THEN envVal ELSE IF inFile THEN fileVal ELSE default

\* Two optional texts agree: the same text, or both unset or empty.
SameText(a, b) == IF Truthy(a) \/ Truthy(b) THEN a = b ELSE TRUE

\* C2 as claimed: for the credential, the wallet password and each of the four
\* RPC URLs the loaded value is the environment's when the environment has
\* one, else the file's when the file has one, else the built-in default.
C2_Original ==
    cfgpc = "loaded" =>
        /\ SameText(config.private_key,
                  Precedence(InEnv("RAILGUN_PRIVATE_KEY"), env["RAILGUN_PRIVATE_KEY"],
                             FileHas("private_key"),
                             IF FileHas("private_key") THEN file.data.private_key ELSE None,
                             None))
        /\ SameText(config.wallet_password,
                  Precedence(InEnv("RAILGUN_WALLET_PASSWORD"),
                             env["RAILGUN_WALLET_PASSWORD"],
                             FileHas("wallet_password"),
                             IF FileHas("wallet_password")
                             THEN file.data.wallet_password ELSE None,
                             None))
        /\ \A n \in Networks :
              config.rpc_endpoints[n] =
                  Precedence(env[RpcEnvVar[n]] # NoUrl, env[RpcEnvVar[n]],
                             FileHasRpc(n),
                             IF FileHasRpc(n) THEN file.data.rpc_endpoints.val[n]
                             ELSE <<>>,
                             DefaultRpc[n])

C1_Original ==
    \A t \in Tasks :
        /\ task[t].pc # "raised"
        /\ task[t].pc = "done" =>
              /\ "success" \in DOMAIN task[t].result
              /\ task[t].result.success \in BOOLEAN
              /\ ~task[t].result.success => "error" \in DOMAIN task[t].result

-----------------------------------------------------------------------------
(***************************************************************************)
(* SpecClient: the client's own interface, called directly                 *)
(*                                                                         *)
(* A caller that holds RailgunAPIClient objects and calls __aenter__,      *)
(* __aexit__, get and post on them in any order, and calls get_api_client  *)
(* and cleanup_api_client; each call runs to its end.                      *)
(***************************************************************************)

MaxClients == 2
MaxSessions == 3

ClientStatuses == {200, 201, 204, 302, 404, 500}
ClientResponses ==
    [status : ClientStatuses, text : BodyTexts] \cup {[status |-> 0, text |-> ""]}

InitClient ==
    /\ env = Environ("env-key", None, NoRpcEnv)
    /\ file = AbsentFile
    /\ config = ConfigInit(env, file).cfg
    /\ cfgpc = "loaded"
    /\ Fresh

SetWorld(w) ==
    /\ api_client' = w.api_client
    /\ clients' = w.clients
    /\ sessions' = w.sessions

LiveSessions(w, c) ==
    {i \in DOMAIN w.sessions : w.sessions[i].owner = c /\ ~w.sessions[i].closed}

\* What a call did, for the properties below: the client it was made on,
\* whether that client had a live session before, whether the call changed
\* anything, the response it met and its outcome.
Called(op, c, w, resp, out) ==
    [op |-> op, client |-> c,
     was_open |-> c # NoRef /\ LiveSessions(World, c) # {},
     changed |-> w # World,
     sent |-> op \in {"get", "post"} /\ SessionUsable(World, c),
     resp |-> resp, out |-> out]

NoResp == [status |-> 0, text |-> ""]

DrvNew ==
    /\ Len(clients) < MaxClients
    /\ LET w == [World EXCEPT !.clients = Append(@, NewClient("key", "url"))]
       IN  /\ SetWorld(w)
           /\ last' = Called("new", Len(w.clients), w, NoResp, Return("client"))
    /\ UNCHANGED <<env, file, config, cfgpc, running, task, sent>>

DrvAenter ==
    /\ Len(sessions) < MaxSessions
    /\ \E c \in DOMAIN clients :
          LET w == aenter(World, c)
          IN  /\ SetWorld(w)
              /\ last' = Called("aenter", c, w, NoResp, Return("client"))
    /\ UNCHANGED <<env, file, config, cfgpc, running, task, sent>>

DrvAexit ==
    /\ \E c \in DOMAIN clients :
          LET w == aexit(World, c)
          IN  /\ SetWorld(w)
              /\ last' = Called("aexit", c, w, NoResp, Return("None"))
    /\ UNCHANGED <<env, file, config, cfgpc, running, task, sent>>

DrvRequest(c, method, resp) ==
    /\ last' = Called(IF method = "GET" THEN "get" ELSE "post", c, World, resp,
                      IF SessionUsable(World, c) THEN ClientCall(method, resp)
                      ELSE Raise(SessionError(World, c)))
    /\ UNCHANGED <<env, file, config, cfgpc, api_client, clients, sessions,
                   running, task, sent>>

DrvGet ==
    \E c \in DOMAIN clients, resp \in ClientResponses : DrvRequest(c, "GET", resp)

DrvPost ==
    \E c \in DOMAIN clients, resp \in ClientResponses : DrvRequest(c, "POST", resp)

DrvGetApiClient ==
    /\ Len(clients) < MaxClients
    /\ Len(sessions) < MaxSessions
    /\ LET r == get_api_client(World, config)
       IN  /\ SetWorld(r.w)
           /\ last' = Called("get_api_client", r.w.api_client, r.w, NoResp,
                             Return("client"))
    /\ UNCHANGED <<env, file, config, cfgpc, running, task, sent>>

DrvCleanup ==
    /\ LET w == cleanup_api_client(World)
       IN  /\ SetWorld(w)
           /\ last' = Called("cleanup_api_client", api_client, w, NoResp,
                             Return("None"))
    /\ UNCHANGED <<env, file, config, cfgpc, running, task, sent>>

NextClient ==
    \/ DrvNew
    \/ DrvGetApiClient
    \/ DrvCleanup
    \/ DrvAenter
    \/ DrvAexit
    \/ DrvGet
    \/ DrvPost

SpecClient == InitClient /\ [][NextClient]_vars

\* C7 as claimed: a get or post that met a response with a 2xx status returned
\* the parsed JSON body, and one that met any other status raised an error
\* carrying the status code and the raw body text.
C7_Original ==
    (last.op \in {"get", "post"} /\ last.sent /\ last.resp.status # 0) =>
        IF last.resp.status \in 200..299
        THEN last.resp.text \in JsonTexts =>
                 last.out = response_json(last.resp.text)
        ELSE last.out = Raise(Err("API request failed", last.resp.status,
                                  last.resp.text))

\* C8 as claimed: __aenter__ on a client that is open creates no further
\* session and leaves the client with exactly one live session; __aexit__ and
\* cleanup_api_client on a client that is closed or was never opened change
\* nothing and do not fail.
C8_Original ==
    /\ \A c \in DOMAIN clients : Cardinality(LiveSessions(World, c)) <= 1
    /\ (last.op = "aenter" /\ last.was_open) => ~last.changed
    /\ (last.op \in {"aexit", "cleanup_api_client"} /\ ~last.was_open) =>
          ~last.changed /\ last.out.kind = "return"

-----------------------------------------------------------------------------
(***************************************************************************)
(* SpecTools: one invocation of a batch tool, over wide arguments          *)
(*                                                                         *)
(* A single task calls create_wallet_batch or distribute_tokens; the       *)
(* server is as just imported, or already holds the client an earlier      *)
(* invocation created.                                                     *)
(***************************************************************************)

MaxCount == 12
MaxDests == 3

BatchCounts == (0 - 1)..MaxCount

WalletIds(n) == [i \in 1..n |-> "w" \o ToString(i)]

TotalAmounts == {<<"7">>, <<"1", "0">>, <<"-", "7">>, <<"0", "9">>, <<"x">>}
AmountLists == {NoneList, List(<<>>), List(<<(<<"3">>), (<<"4">>)>>)}

ToolStatuses == {200, 201, 500}
ToolResponses ==
    [status : ToolStatuses, text : JsonTexts] \cup {[status |-> 0, text |-> ""]}

FreshWorld == [api_client |-> NoRef, clients |-> <<>>, sessions |-> <<>>]

InitTools ==
    /\ \E pk \in {None, "env-key"}, pw \in {None, "", "env-pw"} :
          env = Environ(pk, pw, NoRpcEnv)
    /\ file = AbsentFile
    /\ config = ConfigInit(env, file).cfg
    /\ cfgpc = "loaded"
    /\ \E w \in {FreshWorld} \cup
                (IF Truthy(config.private_key)
                 THEN {CreateApiClient(FreshWorld, config)} ELSE {}) :
          /\ api_client = w.api_client
          /\ clients = w.clients
          /\ sessions = w.sessions
    /\ running = NoRef
    /\ task = [t \in Tasks |-> IdleTask]
    /\ sent = [t \in Tasks |-> <<>>]
    /\ last = NoLast

BatchArgs ==
    [count : BatchCounts, network : {"ethereum"}, password_prefix : {"batch"},
     use_unique_passwords : BOOLEAN]

DistributeArgs ==
    [source_wallet_id : {"src"}, token_address : {"0xT"},
     destination_wallet_ids : {WalletIds(n) : n \in 0..MaxDests},
     total_amount : TotalAmounts,
     distribution_type : {"equal", "custom", "random"},
     amounts : AmountLists]

ImportWalletArgs ==
    [private_key : {"0xPK"}, network : {"ethereum"}, password : {None, "", "pw"}]

call_import_wallet(t) == \E a \in ImportWalletArgs : Invoke(t, "import_wallet", a)

BalanceArgs ==
    [wallet_id : {"w1"}, token_address : {None, "", "0xT"},
     include_private : BOOLEAN]

call_get_balance(t) == \E a \in BalanceArgs : Invoke(t, "get_balance", a)

ShieldArgs ==
    [wallet_id : {"w1"}, token_address : {"0xT"}, amount : {"100"},
     recipient_0zk_address : {None, "", "0zk:r"}, gas_price : {None, "5"}]

call_shield_tokens(t) == \E a \in ShieldArgs : Invoke(t, "shield_tokens", a)

call_create_wallet_batch(t) ==
    \E a \in BatchArgs : Invoke(t, "create_wallet_batch", a)

call_distribute_tokens(t) ==
    \E a \in DistributeArgs : Invoke(t, "distribute_tokens", a)

ToolResponse(t) == \E resp \in ToolResponses : Respond(t, resp)

NextTools ==
    \/ call_create_wallet(1)
    \/ call_import_wallet(1)
    \/ call_list_wallets(1)
    \/ call_get_balance(1)
    \/ call_shield_tokens(1)
    \/ call_mix_tokens(1)
    \/ call_check_config(1)
    \/ call_create_wallet_batch(1)
    \/ call_distribute_tokens(1)
    \/ GacCheck(1)
    \/ GacCreate(1)
    \/ RunBody(1)
    \/ ToolResponse(1)

SpecTools == InitTools /\ [][NextTools]_vars

IsTransfer(r) == r.endpoint = "/transactions/private-transfer"
TransfersSent(t) == SelectSeq(sent[t], IsTransfer)

\* C4: a create_wallet_batch invocation with count above 10 has ended, with
\* the failure result of the limit, without obtaining the client and without
\* any request sent, whatever the other arguments and whether or not a client
\* exists.
C4_BatchLimit ==
    \A t \in Tasks :
        (task[t].h = "create_wallet_batch" /\ task[t].args.count > 10) =>
            /\ task[t].pc = "done"
            /\ task[t].result =
                  [success |-> FALSE, error |-> "Maximum 10 wallets per batch"]
            /\ task[t].client = NoRef
            /\ sent[t] = <<>>

C4_Witness ==
    \E t \in Tasks :
        /\ task[t].h = "create_wallet_batch"
        /\ task[t].args.count = 11
        /\ task[t].args.use_unique_passwords
        /\ task[t].pc = "done"
        /\ api_client # NoRef

\* C5: once distribute_tokens with distribution_type "equal" over N
\* destinations has computed its amounts, there are N of them, each the
\* decimal text of q with q*N <= total < (q+1)*N (the floor of total/N), their
\* sum is at most the total, and every transfer sent carries its amount.
C5_EqualSplit ==
    \A t \in Tasks :
        (/\ task[t].h = "distribute_tokens"
         /\ task[t].args.distribution_type = "equal"
         /\ task[t].loc # NoLoc) =>
            LET N    == Len(task[t].args.destination_wallet_ids)
                T    == int(task[t].args.total_amount)
                amts == task[t].loc.amounts.items
                S    == TransfersSent(t)
            IN  /\ ~task[t].loc.amounts.is_none
                /\ Len(amts) = N
                /\ \A i \in 1..Len(amts) :
                      /\ IntParses(amts[i])
                      /\ amts[i] = str(int(amts[i]))
                      /\ int(amts[i]) * N <= T
                      /\ T < (int(amts[i]) + 1) * N
                /\ SeqSum([i \in 1..Len(amts) |-> int(amts[i])]) <= T
                /\ \A k \in 1..Len(S) : k <= Len(amts) /\ S[k].data.amount = amts[k]

C5_Witness ==
    \E t \in Tasks :
        /\ task[t].h = "distribute_tokens"
        /\ task[t].args.distribution_type = "equal"
        /\ task[t].args.total_amount = <<"1", "0">>
        /\ Len(task[t].args.destination_wallet_ids) = 3
        /\ task[t].pc = "done"
        /\ task[t].result.success
        /\ Len(TransfersSent(t)) = 3

\* An error that came out of a request: a non-success status, a failed
\* connection, or a response without the field the handler reads.
RequestFailed(error) ==
    error \in {ExcStr(ConnError), ExcStr(KeyError("tx_hash"))} \cup
              {ExcStr(Err("API request failed", r.status, r.text)) :
                  r \in ToolResponses}

\* C6: distribute_tokens sends the lookups and then the transfers, to the
\* destinations in order and nothing else (no transfer back); a transfer is
\* attempted only when every earlier one succeeded, so none follows a failed
\* one; when a transfer failed the invocation has ended with a failure result
\* of exactly success and error, the earlier transfers left as made.
C6_AbortAtFirstFailure ==
    \A t \in Tasks :
        task[t].h = "distribute_tokens" =>
            LET ids == task[t].args.destination_wallet_ids
                N   == Len(ids)
                k   == Len(TransfersSent(t))
            IN  /\ \A j \in 1..Len(sent[t]) :
                      IF j <= N
                      THEN /\ sent[t][j].method = "GET"
                           /\ sent[t][j].endpoint = "/wallets/" \o ids[j]
                      ELSE /\ j <= 2 * N
                           /\ sent[t][j].method = "POST"
                           /\ IsTransfer(sent[t][j])
                           /\ sent[t][j].data.wallet_id = "src"
                           /\ sent[t][j].data.recipient_0zk_address =
                                  "0zk:" \o ids[j - N]
                /\ k >= 1 => Len(task[t].loc.transfers) >= k - 1
                /\ (task[t].pc = "done" /\ k >= 1) =>
                      IF task[t].result.success
                      THEN k = N /\ Len(task[t].result.transfers) = N
                      ELSE /\ DOMAIN task[t].result = {"success", "error"}
                           /\ RequestFailed(task[t].result.error) =>
                                 Len(task[t].loc.transfers) = k - 1

C6_Witness ==
    \E t \in Tasks :
        /\ task[t].h = "distribute_tokens"
        /\ Len(task[t].args.destination_wallet_ids) = 3
        /\ task[t].pc = "done"
        /\ ~task[t].result.success
        /\ task[t].result.error = "API request failed: 500 - {...}"
        /\ Len(TransfersSent(t)) = 2
        /\ Len(task[t].loc.transfers) = 1

-----------------------------------------------------------------------------
(***************************************************************************)
(* SpecMain: the server from import to the end of main (lines 1407-1421)   *)
(*                                                                         *)
(* mcp.run() serves handler invocations until it ends, in one of three     *)
(* ways: KeyboardInterrupt leaves it, another Exception leaves it, or it   *)
(* returns (the transport was closed, or the framework handled its         *)
(* shutdown itself).  When it ends its event loop is gone and the          *)
(* invocations still pending are cancelled.                                *)
(***************************************************************************)

RunEndings == {"KeyboardInterrupt", "Exception", "return"}

\* lines 1414-1420: the two except clauses run cleanup_api_client and exit;
\* a plain return of mcp.run() falls off the end of main.
MainCleansUp(how) == how \in {"KeyboardInterrupt", "Exception"}

Cancelled(tk) ==
    IF tk.pc \in {"gac", "aenter", "body", "await"}
    THEN [tk EXCEPT !.pc = "cancelled"] ELSE tk

MainEnds(how) ==
    /\ cfgpc = "loaded"
    /\ running = NoRef
    /\ cfgpc' = "exited"
    /\ task' = [t \in Tasks |-> Cancelled(task[t])]
    /\ SetWorld(IF MainCleansUp(how) THEN cleanup_api_client(World) ELSE World)
    /\ last' = [op |-> "main", how |-> how]
    /\ UNCHANGED <<env, file, config, running, sent>>

MainEnd == \E how \in RunEndings : MainEnds(how)

Serving(t) ==
    /\ cfgpc = "loaded"
    /\ \/ GacCheck(t)
       \/ GacCreate(t)
       \/ RunBody(t)
       \/ Response(t)

NextMain ==
    \/ \E t \in Tasks : call_create_wallet(t)
    \/ \E t \in Tasks : call_list_wallets(t)
    \/ \E t \in Tasks : Serving(t)
    \/ MainEnd

SpecMain == Init /\ [][NextMain]_vars

OpenSessions == {i \in DOMAIN sessions : ~sessions[i].closed}

\* C11 as claimed: once main has finished, however mcp.run() ended, the
\* global api_client is None and no session is open.
C11_Original ==
    cfgpc = "exited" => api_client = NoRef /\ OpenSessions = {}

\* C12: every result a handler has returned has a boolean success; a failure
\* result has exactly the keys success and error, error a string, and so
\* carries no code, no kind and nothing about the steps already completed; a
\* success result has no error key.
C12_UniformFailure ==
    \A t \in Tasks :
        task[t].pc = "done" =>
            /\ task[t].result.success \in BOOLEAN
            /\ IF task[t].result.success
               THEN "error" \notin DOMAIN task[t].result
               ELSE /\ DOMAIN task[t].result = {"success", "error"}
                    /\ task[t].result.error \in STRING

C12_Witness ==
    \E t \in Tasks :
        /\ task[t].h = "distribute_tokens"
        /\ task[t].pc = "done"
        /\ ~task[t].result.success
        /\ task[t].result.error = "API request failed: 500 - {}"
        /\ task[t].loc # NoLoc
        /\ Len(task[t].loc.transfers) = 2

\* C13: with the credential configured, a create_wallet or import_wallet
\* invocation whose password parameter and configured wallet password are
\* both None or empty sends no request, and once it has run its body it has
\* returned the failure result that says a wallet password is required.
C13_PasswordRequired ==
    \A t \in Tasks :
        (/\ task[t].h \in {"create_wallet", "import_wallet"}
         /\ config.private_key \notin {None, ""}
         /\ task[t].args.password \in {None, ""}
         /\ config.wallet_password \in {None, ""}) =>
            /\ sent[t] = <<>>
            /\ task[t].pc \in {"gac", "aenter", "body", "done"}
            /\ task[t].pc = "done" =>
                  task[t].result =
                      [success |-> FALSE,
                       error |-> "Wallet password required. Set RAILGUN_WALLET_PASSWORD or provide password parameter"]

C13_Witness ==
    \E t \in Tasks :
        /\ task[t].h = "import_wallet"
        /\ config.private_key = "env-key"
        /\ task[t].args.password = ""
        /\ config.wallet_password = ""
        /\ task[t].pc = "done"
        /\ api_client # NoRef

\* The payload keys that are optional: the optional parameters and the wallet
\* password taken from the settings.
OptionalKeys ==
    {"recipient_0zk_address", "recipient_0x_address", "gas_price", "memo",
     "token_address", "transaction_type", "password"}

\* C14 as claimed: in every request sent, no optional payload key carries the
\* value None.
C14_Original ==
    \A t \in Tasks :
        \A j \in DOMAIN sent[t] :
            \A k \in DOMAIN sent[t][j].data \cap OptionalKeys :
                sent[t][j].data[k] # None

\* C15: once Config() has been constructed, the settings stay what the
\* construction made of the environment and the file: no handler invocation
\* and no step of the client changes any field of them.
C15_SettingsImmutable ==
    cfgpc = "loaded" => config = ConfigInit(env, file).cfg

C15_Witness ==
    /\ cfgpc = "loaded"
    /\ api_client # NoRef
    /\ sent[1] # <<>>
    /\ task[1].h = "shield_tokens"
    /\ task[1].pc = "done"
    /\ config.private_key = "env-key"

-----------------------------------------------------------------------------
(***************************************************************************)
(* SpecApi: from Config() to the first requests, with the API key and API  *)
(* URL variables in the environment and in the file                        *)
(***************************************************************************)

\* Variables the process may have set and file keys the file may hold that
\* Config.__init__ never reads.
UnreadEnvVars == {"RAILGUN_API_KEY", "RAILGUN_API_URL"}

ApiEnvs ==
    {Environ(pk, None, NoRpcEnv) @@
     [v \in UnreadEnvVars |-> IF v = "RAILGUN_API_KEY" THEN key ELSE url] :
        pk \in {None, "env-key"}, key \in {None, "env-api-key"},
        url \in {None, "env-api-url"}}

ApiFiles ==
    {AbsentFile} \cup
    {[state |-> "object",
      data |-> [private_key |-> pk, wallet_password |-> None,
                rpc_endpoints |-> Missing, railgun_contracts |-> Missing,
                api_key |-> key, railgun_api_url |-> url]] :
        pk \in {None, "file-key"}, key \in {None, "file-api-key"},
        url \in {None, "file-api-url"}}

InitApi ==
    /\ env \in ApiEnvs
    /\ file \in ApiFiles
    /\ config = NoConfig
    /\ cfgpc = "start"
    /\ Fresh

NextApi ==
    \/ ConstructConfig
    \/ call_list_wallets(1)
    \/ GacCheck(1)
    \/ GacCreate(1)
    \/ RunBody(1)
    \/ Response(1)

SpecApi == InitApi /\ [][NextApi]_vars

\* C16 as claimed: with no config file, the constructed settings expose
\* api_key equal to the value of RAILGUN_API_KEY (None when it is unset) and,
\* no URL override being set, railgun_api_url equal to the built-in default.
C16_Original ==
    (cfgpc = "loaded" /\ file = AbsentFile) =>
        /\ getattr(config, "api_key") =
              [kind |-> "return", val |-> env["RAILGUN_API_KEY"]]
        /\ env["RAILGUN_API_URL"] = None =>
              getattr(config, "railgun_api_url") =
                  [kind |-> "return", val |-> "https://api.railgun.org/v1"]

\* The API base URL override that is set: the environment's, else the file's.
ApiUrlOverride ==
    IF env["RAILGUN_API_URL"] # None THEN env["RAILGUN_API_URL"]
    ELSE IF file.state = "object" THEN file.data.railgun_api_url
    ELSE None

\* C17 as claimed: when an API base URL override is set, the settings'
\* railgun_api_url equals it and every request the shared client sends goes
\* to that base URL.
C17_Original ==
    (cfgpc = "loaded" /\ ApiUrlOverride # None) =>
        /\ getattr(config, "railgun_api_url") =
              [kind |-> "return", val |-> ApiUrlOverride]
        /\ \A t \in Tasks : \A j \in DOMAIN sent[t] :
              sent[t][j].url = ApiUrlOverride \o sent[t][j].endpoint

-----------------------------------------------------------------------------
(***************************************************************************)
(* SpecNoKey: invocations, one after or beside another, on a server whose  *)
(* settings may hold no credential                                         *)
(***************************************************************************)

NoKeyEnvs == {Environ(pk, None, NoRpcEnv) : pk \in {None, "", "env-key"}}

NoKeyFiles ==
    {AbsentFile} \cup
    {[state |-> "object",
      data |-> [private_key |-> pk, wallet_password |-> "file-pw",
                rpc_endpoints |-> Missing, railgun_contracts |-> Missing]] :
        pk \in {None, ""}}

InitNoKey ==
    /\ env \in NoKeyEnvs
    /\ file \in NoKeyFiles
    /\ config = ConfigInit(env, file).cfg
    /\ cfgpc = "loaded"
    /\ Fresh

NoKeyWalletArgs == {a \in CreateWalletArgs : a.password = "pw"}
NoKeyShieldArgs ==
    {a \in ShieldArgs : a.recipient_0zk_address = None /\ a.gas_price = None}
NoKeyBatchArgs ==
    {a \in BatchArgs : a.count \in {2, MaxBatch + 1} /\ a.use_unique_passwords}
NoKeyDistributeArgs ==
    {a \in DistributeArgs :
        /\ Len(a.destination_wallet_ids) = 2
        /\ a.total_amount = <<"7">>
        /\ a.distribution_type = "equal"
        /\ a.amounts = NoneList}

NoKeyCall(t) ==
    \/ \E a \in NoKeyWalletArgs : Invoke(t, "create_wallet", a)
    \/ \E a \in NoKeyShieldArgs : Invoke(t, "shield_tokens", a)
    \/ \E a \in NoKeyBatchArgs : Invoke(t, "create_wallet_batch", a)
    \/ \E a \in NoKeyDistributeArgs : Invoke(t, "distribute_tokens", a)
    \/ call_list_wallets(t)
    \/ call_mix_tokens(t)
    \/ call_check_config(t)

NextNoKey ==
    \E t \in Tasks :
        \/ NoKeyCall(t)
        \/ GacCheck(t)
        \/ GacCreate(t)
        \/ RunBody(t)
        \/ Response(t)

SpecNoKey == InitNoKey /\ [][NextNoKey]_vars

NotConfiguredResult ==
    [success |-> FALSE, error |-> "RAILGUN_PRIVATE_KEY not configured"]

\* No client, no session, no request, and no invocation past get_api_client.
NothingOpened ==
    /\ api_client = NoRef
    /\ clients = <<>>
    /\ sessions = <<>>
    /\ \A t \in Tasks : sent[t] = <<>> /\ task[t].pc \in {"idle", "gac", "done"}

\* C18 as claimed: with no credential in the settings, every invocation of a
\* handler other than check_config that has ended has returned the
\* not-configured failure, and no client, session or request exists, for the
\* first invocation and for every later one.
C18_Original ==
    config.private_key \in {None, ""} =>
        /\ NothingOpened
        /\ \A t \in Tasks :
              (task[t].pc = "done" /\ task[t].h # "check_config") =>
                  task[t].result = NotConfiguredResult

\* C18 amended: as above, except that create_wallet_batch with count above
\* 10 has returned the batch-limit failure, which it tests before it asks
\* for the client.
C18_Amended ==
    config.private_key \in {None, ""} =>
        /\ NothingOpened
        /\ \A t \in Tasks :
              (task[t].pc = "done" /\ task[t].h # "check_config") =>
                  IF task[t].h = "create_wallet_batch" /\ task[t].args.count > 10
                  THEN task[t].result =
                          [success |-> FALSE, error |-> "Maximum 10 wallets per batch"]
                  ELSE task[t].result = NotConfiguredResult

C18_Witness ==
    /\ config.private_key = ""
    /\ task[1].pc = "done"
    /\ task[1].h = "create_wallet_batch"
    /\ task[1].args.count = 2
    /\ task[2].pc = "done"
    /\ task[2].h = "shield_tokens"
    /\ task[2].result = NotConfiguredResult

\* The failures of create_wallet_batch that come from the backend not
\* accepting a request.
BatchRequestFailed(error) ==
    error \in {ExcStr(ConnError), ExcStr(KeyError("wallet_id"))} \cup
              {ExcStr(Err("API request failed", r.status, r.text)) :
                  r \in ToolResponses}

\* What C19 says of a create_wallet_batch invocation of task t that is to
\* make n wallets: it sends POST /wallets/create only, never more than n
\* times; with the credential configured it fails only because the backend
\* did not accept a request; and when it has returned success it has sent
\* exactly n requests and reports n wallets with the indices 0..n-1 in order
\* and count n.
BatchMakes(t, n) ==
    /\ Len(sent[t]) <= (IF n < 0 THEN 0 ELSE n)
    /\ \A j \in DOMAIN sent[t] :
          sent[t][j].method = "POST" /\ sent[t][j].endpoint = "/wallets/create"
    /\ task[t].pc = "done" =>
          IF task[t].result.success
          THEN /\ Len(sent[t]) = n
               /\ Len(task[t].result.wallets_created) = n
               /\ \A i \in 1..Len(task[t].result.wallets_created) :
                     task[t].result.wallets_created[i].index = i - 1
               /\ task[t].result.count = n
          ELSE \/ config.private_key \in {None, ""}
               \/ BatchRequestFailed(task[t].result.error)

\* C19 as claimed: for every count <= 10 the invocation makes count wallets.
C19_Original ==
    \A t \in Tasks :
        (task[t].h = "create_wallet_batch" /\ task[t].args.count <= 10) =>
            BatchMakes(t, task[t].args.count)

\* C19 amended: for 0 <= count <= 10 the invocation makes count wallets; for
\* a negative count it makes none: it sends nothing and returns success with
\* an empty list and count 0.
C19_Amended ==
    \A t \in Tasks :
        (task[t].h = "create_wallet_batch" /\ task[t].args.count <= 10) =>
            BatchMakes(t, IF task[t].args.count < 0 THEN 0 ELSE task[t].args.count)

C19_Witness ==
    \E t \in Tasks :
        /\ task[t].h = "create_wallet_batch"
        /\ task[t].args.count = 10
        /\ task[t].pc = "done"
        /\ task[t].result.success
        /\ Len(sent[t]) = 10

\* C20: whenever distribute_tokens has returned success and the amounts are
\* integers, the total_distributed of the result is the sum of the amounts of
\* the transfers listed in the result.
C20_Original ==
    \A t \in Tasks :
        (/\ task[t].h = "distribute_tokens"
         /\ task[t].pc = "done"
         /\ task[t].result.success) =>
            LET res  == task[t].result
                amts == [i \in 1..Len(res.transfers) |-> res.transfers[i].amount]
            IN  (/\ IntParses(res.total_distributed)
                 /\ \A i \in 1..Len(amts) : IntParses(amts[i])) =>
                    int(res.total_distributed) =
                        SeqSum([i \in 1..Len(amts) |-> int(amts[i])])

\* C21: in distribute_tokens with distribution_type "custom", a missing or
\* empty amounts list gives a failure result with no request sent; a
\* non-empty amounts list shorter than the destination list is not rejected
\* before the requests: an invocation that ended with nothing sent ended at
\* the credential test, at most len(amounts) transfers are sent, the handler
\* never returns success, and when it ends at the missing amount it has sent
\* the transfers of the first len(amounts) destinations, in order, and no
\* request other than the lookups and these transfers.
C21_CustomAmounts ==
    \A t \in Tasks :
        (task[t].h = "distribute_tokens" /\ task[t].args.distribution_type = "custom") =>
            LET a    == task[t].args
                done == task[t].pc = "done"
                S    == TransfersSent(t)
                n    == Len(a.amounts.items)
            IN  /\ ListFalsy(a.amounts) =>
                    /\ sent[t] = <<>>
                    /\ done =>
                         /\ ~task[t].result.success
                         /\ task[t].result.error \in
                               {"Custom amounts required for custom distribution",
                                ExcStr(NotConfigured)}
                /\ (~ListFalsy(a.amounts) /\ n < Len(a.destination_wallet_ids)) =>
                    /\ Len(S) <= n
                    /\ \A k \in 1..Len(S) :
                          /\ S[k].data.amount = a.amounts.items[k]
                          /\ S[k].data.recipient_0zk_address =
                                "0zk:" \o a.destination_wallet_ids[k]
                    /\ \A j \in DOMAIN sent[t] :
                          \/ IsTransfer(sent[t][j])
                          \/ /\ sent[t][j].method = "GET"
                             /\ j <= Len(a.destination_wallet_ids)
                             /\ sent[t][j].endpoint = "/wallets/" \o a.destination_wallet_ids[j]
                    /\ done =>
                         /\ ~task[t].result.success
                         /\ sent[t] = <<>> => task[t].result.error = ExcStr(NotConfigured)
                         /\ task[t].result.error = "list index out of range" <=>
                               (Len(S) = n /\ ~RequestFailed(task[t].result.error))

C21_Witness ==
    \E t \in Tasks :
        /\ task[t].h = "distribute_tokens"
        /\ task[t].args.distribution_type = "custom"
        /\ Len(task[t].args.amounts.items) = 2
        /\ Len(task[t].args.destination_wallet_ids) = 3
        /\ task[t].pc = "done"
        /\ task[t].result.error = "list index out of range"
        /\ Len(TransfersSent(t)) = 2

\* C22: in distribute_tokens every lookup has completed before the first
\* transfer is sent: a transfer in the requests sent is preceded by the
\* lookups of all the destinations, in their order, each of them answered with
\* the address; an invocation in which a lookup is still unanswered or has
\* failed has sent no transfer; the k-th transfer goes to the k-th
\* destination and is sent only when the k-1 before it have been answered.
C22_LookupsFirst ==
    \A t \in Tasks :
        (task[t].h = "distribute_tokens" /\ task[t].loc # NoLoc) =>
            LET ids == task[t].args.destination_wallet_ids
                N   == Len(ids)
                loc == task[t].loc
                S   == TransfersSent(t)
            IN  /\ Len(loc.destinations) < N => S = <<>>
                /\ \A j \in 1..Len(sent[t]) :
                      IsTransfer(sent[t][j]) =>
                          /\ j > N
                          /\ Len(loc.destinations) = N
                          /\ \A i \in 1..N :
                                /\ sent[t][i].method = "GET"
                                /\ sent[t][i].endpoint = "/wallets/" \o ids[i]
                                /\ loc.destinations[i].wallet_id = ids[i]
                          /\ sent[t][j].data.recipient_0zk_address =
                                loc.destinations[j - N].address_0zk
                          /\ loc.destinations[j - N].wallet_id = ids[j - N]
                          /\ Len(loc.transfers) >= j - N - 1
                /\ Len(S) <= Len(loc.transfers) + 1

C22_Witness ==
    \E t \in Tasks :
        /\ task[t].h = "distribute_tokens"
        /\ Len(task[t].args.destination_wallet_ids) = 3
        /\ task[t].pc = "done"
        /\ ~task[t].result.success
        /\ Len(sent[t]) = 2
        /\ task[t].loc # NoLoc
        /\ Len(task[t].loc.destinations) = 1
        /\ TransfersSent(t) = <<>>

-----------------------------------------------------------------------------
(***************************************************************************)
(* SpecEasy: the easy-mode handlers just_send_money, fix_stuck_transaction *)
(* and emergency_exit                                                      *)
(*                                                                         *)
(* A single task calls one of them, from the initial states of SpecTools;  *)
(* the backend answers each request with any status and any of the         *)
(* documents of JsonDocs, or the connection fails.  Amounts are kept to    *)
(* those whose value in the smallest unit stays small: whole amounts for   *)
(* the 6-decimal USDC, amounts of a few 10**-18 for a token that is not in *)
(* decimals and so has 18.                                                 *)
(***************************************************************************)
Recipient == <<"0", "z", "k", ":", "b", "o", "b", "-", "1">>

WholeAmounts == {<<"1">>, <<"3">>}
TinyAmounts ==
    {<<"0", ".", "0", "0", "0", "0", "0", "0", "0", "0", "0", "0",
       "0", "0", "0", "0", "0", "0", "0", "2">>}
OtherAmounts ==
    {<<"2", " ", "U", "S", "D", "C">>, <<"1", " ", "2", " ", "3">>, <<"x">>}

SendMoneyArgs ==
    [wallet_id : {"w1"}, to : {Recipient}, amount : WholeAmounts \cup OtherAmounts,
     token : {"USDC"}, keep_private : BOOLEAN]
    \cup
    [wallet_id : {"w1"}, to : {Recipient}, amount : TinyAmounts \cup OtherAmounts,
     token : {"WBTC"}, keep_private : BOOLEAN]

FixArgs == [wallet_id : {"w1"}, transaction_id : {None, "tx2"}]

ExitArgs == [wallet_id : {"w1"}, destination : {"0xHW"}, reason : {"general"}]

EasyResponses ==
    [status : ToolStatuses, text : DocTexts \cup {"{}"}] \cup
    {[status |-> 0, text |-> ""]}

call_just_send_money(t) == \E a \in SendMoneyArgs : Invoke(t, "just_send_money", a)

call_fix_stuck_transaction(t) ==
    \E a \in FixArgs : Invoke(t, "fix_stuck_transaction", a)

call_emergency_exit(t) == \E a \in ExitArgs : Invoke(t, "emergency_exit", a)

EasyResponse(t) == \E resp \in EasyResponses : Respond(t, resp)

NextEasy ==
    \/ call_just_send_money(1)
    \/ call_fix_stuck_transaction(1)
    \/ call_emergency_exit(1)
    \/ GacCheck(1)
    \/ GacCreate(1)
    \/ RunBody(1)
    \/ EasyResponse(1)

SpecEasy == InitTools /\ [][NextEasy]_vars

IsShield(r) == r.endpoint = "/transactions/shield"
ShieldsSent(t) == SelectSeq(sent[t], IsShield)

\* The failures of a request that the backend did not accept: a non-success
\* status, a failed connection.
EasyRequestFailed(error) ==
    error \in {ExcStr(ConnError)} \cup
              {ExcStr(Err("API request failed", r.status, r.text)) :
                  r \in EasyResponses}

\* C23: in just_send_money with keep_private true, once the private balance
\* is known: at most one shield and at most one private transfer are sent,
\* the shield before the transfer; a shield is sent exactly when the balance
\* is below the amount, and it asks for the amount minus the balance; the
\* transfer asks for the full amount; when the balance covers the amount and
\* when the shield has succeeded the transfer is sent, so an invocation that
\* ended with a shield and no transfer ended on the failure of the shield.
C23_Original ==
    \A t \in Tasks :
        (/\ task[t].h = "just_send_money"
         /\ task[t].args.keep_private
         /\ task[t].loc # NoLoc
         /\ task[t].loc.phase # "balances") =>
            LET loc == task[t].loc
                Sh  == ShieldsSent(t)
                Tr  == TransfersSent(t)
                short == int(loc.private_balance) < int(loc.amount_wei)
            IN  /\ Len(Sh) <= 1 /\ Len(Tr) <= 1
                /\ Len(sent[t]) = 1 + Len(Sh) + Len(Tr)
                /\ Len(Sh) = (IF short THEN 1 ELSE 0)
                /\ \A i \in DOMAIN Sh :
                      int(Sh[i].data.amount) =
                          int(loc.amount_wei) - int(loc.private_balance)
                /\ \A i \in DOMAIN Tr :
                      /\ Tr[i].data.amount = loc.amount_wei
                      /\ sent[t][Len(sent[t])] = Tr[i]
                /\ ~short => Len(Tr) = 1
                /\ (short /\ task[t].pc = "done" /\ Len(Tr) = 0) =>
                      EasyRequestFailed(task[t].result.error)

\* C24: just_send_money with keep_private false sends no shield and no
\* private-transfer request, and once it has come to its return it returns
\* success, with steps_taken reporting the public send and the public
\* privacy_level.
C24_Original ==
    \A t \in Tasks :
        (task[t].h = "just_send_money" /\ ~task[t].args.keep_private) =>
            /\ ShieldsSent(t) = <<>>
            /\ TransfersSent(t) = <<>>
            /\ (/\ task[t].pc = "done"
                /\ config.private_key \notin {None, ""}
                /\ task[t].args.amount \in WholeAmounts \cup TinyAmounts) =>
                   /\ task[t].result.success
                   /\ task[t].result.steps_taken =
                         <<SentStep(task[t].args.amount, task[t].args.token, "publicly")>>
                   /\ task[t].result.privacy_level = "Public"

\* Requests that only read: GET.
OnlyReads(t) == \A j \in DOMAIN sent[t] : sent[t][j].method = "GET"

\* C25: fix_stuck_transaction sends only a read request, one GET
\* /transactions, and when it was given a transaction_id the
\* stuck_transaction of its result has that id.
C25_Original ==
    \A t \in Tasks :
        task[t].h = "fix_stuck_transaction" =>
            /\ OnlyReads(t)
            /\ Len(sent[t]) <= 1
            /\ \A j \in DOMAIN sent[t] : sent[t][j].endpoint = "/transactions"
            /\ (/\ task[t].pc = "done"
                /\ task[t].args.transaction_id # None
                /\ task[t].result.success
                /\ "stuck_transaction" \in DOMAIN task[t].result) =>
                   task[t].result.stuck_transaction.id = task[t].args.transaction_id

\* The entries of a per-token balance object whose amount is above zero.
PositiveEntries(entries) ==
    {i \in DOMAIN entries : IntParses(entries[i].value) /\ int(entries[i].value) > 0}

FileEntries ==
    IF file.state = "object" /\ file.data.railgun_contracts.kind = "object"
    THEN file.data.railgun_contracts.val ELSE <<>>

\* The loaded contract addresses are the built-in ones with the first upto
\* entries of the file merged per network and per key: a network with
\* built-in addresses has the file's keys replaced or added and its other
\* keys as built in, a network without has the file's record as given, and
\* every other network is as built in.
MergedUpTo(upto) ==
    LET named == {FileEntries[i].network : i \in 1..upto}
        of(n) == FileEntries[CHOOSE i \in 1..upto : FileEntries[i].network = n]
        rc    == config.railgun_contracts
    IN  /\ DOMAIN rc = DOMAIN DefaultContracts \cup named
        /\ \A n \in DOMAIN rc :
              IF n \notin named THEN rc[n] = DefaultContracts[n]
              ELSE IF n \notin DOMAIN DefaultContracts THEN rc[n] = of(n).val
              ELSE /\ DOMAIN rc[n] = DOMAIN DefaultContracts[n] \cup DOMAIN of(n).val
                   /\ \A k \in DOMAIN rc[n] :
                         rc[n][k] = IF k \in DOMAIN of(n).val THEN of(n).val[k]
                                    ELSE DefaultContracts[n][k]

\* The entries that give a network with built-in addresses something that is
\* not an object.
BadEntries ==
    {i \in DOMAIN FileEntries :
        FileEntries[i].kind # "object" /\ FileEntries[i].network \in DOMAIN DefaultContracts}

=============================================================================
